---- MODULE Spec2Model ----
(***************************************************************************)
(* Webhook intake and background enrichment orchestration of               *)
(* mbras-c2s-enrichment (src/src/webhook_handler.rs and the workflow of    *)
(* src/src/enrichment.rs it drives), with the parts the workflow leans on: *)
(* the circuit breaker (circuit_breaker.rs), the checksummed cache entry   *)
(* (cache_validator.rs), the cached Work API handlers (handlers.rs) and    *)
(* the storage of an enriched person (db_storage.rs); and the two other    *)
(* entry points that create work for a lead: the trigger endpoint          *)
(* (handlers.rs) and the Google Ads webhook (google_ads_handler.rs).       *)
(*                                                                         *)
(* State: the webhook_events table, the configured webhook secret, the     *)
(* HTTP requests in flight (one c2s_webhook invocation each), the detached *)
(* tokio tasks spawned by spawn_enrichment_job, the in-memory caches, the  *)
(* breaker and the entity tables.                                          *)
(***************************************************************************)
EXTENDS Integers, Sequences, FiniteSets, TLC

(* ------------------------------ bounds -------------------------------- *)
MaxRequests == 2      \* HTTP requests to POST /api/v1/webhooks/c2s
MaxEvents == 2        \* events over all request payloads
MaxTokenLen == 1      \* length of an X-Webhook-Token header value
NumLeads == 1         \* distinct lead ids
MaxRedrive == 1       \* extra runners started for a receipt (SpecRunner only)
MaxStatements == 2    \* SQL statements of one store_enriched_person_with_lead
MaxInFlight == 2      \* calls through the circuit breaker in flight at once
MaxTime == 12         \* clock of the circuit breaker, in units of 10 s
MaxStrLen == 2        \* length of a string sealed in a ValidatedCacheEntry
MaxUpserts == 2       \* calls of store_enriched_person_with_lead for one CPF
MaxTriggers == 2      \* requests to GET /api/v1/leads/process
MaxSeconds == 1       \* clock of the trigger endpoint, in seconds
MaxDeliveries == 2    \* deliveries to the Google Ads webhook

(* ------------------------- Option<T> and Result ----------------------- *)
None == << >>
Some(x) == << x >>
IsSome(o) == Len(o) = 1
Unwrap(o) == o[1]

Ok(v) == [ok |-> TRUE, val |-> v]
Err(e) == [ok |-> FALSE, val |-> e]

(* ------------------------------ inputs -------------------------------- *)
LeadIds == 1..NumLeads

\* An updated_at string: its syntax (which chrono parser accepts it), the
\* local clock reading it spells and the UTC offset it spells. One string per
\* syntax; the first two denote the same instant.
TsStrings ==
    {[fmt |-> "rfc3339", local |-> 1, off |-> 0],      \* 1970-..T01:00:00Z
     [fmt |-> "space_tz", local |-> 2, off |-> 1],     \* 1970-.. 02:00:00 +0100
     [fmt |-> "naive", local |-> 2, off |-> 0],        \* 1970-.. 02:00:00
     [fmt |-> "garbage", local |-> 0, off |-> 0]}      \* not a timestamp

Customers == {[phone |-> Some("p"), email |-> Some("e")]}

\* WebhookEvent: id, attributes.updated_at, attributes.customer
Events ==
    [id : LeadIds,
     updated_at : {None} \cup {Some(s) : s \in TsStrings},
     customer : {None} \cup {Some(c) : c \in Customers}]

\* Header bytes: a visible ASCII letter and an obs-text byte.
Bytes == {65, 200}
RECURSIVE SeqsUpTo(_, _)
SeqsUpTo(S, n) ==
    IF n = 0 THEN {<< >>}
    ELSE LET shorter == SeqsUpTo(S, n - 1)
         IN shorter \cup {Append(s, b) : s \in {x \in shorter : Len(x) = n - 1}, b \in S}

HeaderValues == SeqsUpTo(Bytes, MaxTokenLen)
\* HeaderMap restricted to the X-Webhook-Token entry: absent or a value.
Headers == {None} \cup {Some(v) : v \in HeaderValues}

\* Config.webhook_secret: unset, or a non-blank string.
Secrets == {None, Some(<<65>>)}

VARIABLES
    webhook_secret,   \* state.config.webhook_secret
    webhook_events,   \* rows of table webhook_events
    req,              \* per request: position in c2s_webhook and its locals
    tasks,            \* detached tasks of spawn_enrichment_job, in spawn order
    redrives,         \* runners started outside intake (SpecRunner only)
    job,              \* one task of spawn_enrichment_job, stage by stage (SpecJob)
    breaker,          \* the circuit breaker of create_db_circuit_breaker (SpecBreaker)
    seal,             \* one use of ValidatedCacheEntry (SpecSeal)
    work_api_cache,   \* state.work_api_cache: key -> sealed text (SpecFetch)
    fetch,            \* one fetch_all_modules / fetch_module request (SpecFetch)
    contact_to_cpf_cache,   \* state.contact_to_cpf_cache (SpecJob)
    recent_cpf_cache,       \* state.recent_cpf_cache: live keys (SpecJob)
    store,            \* core.entities and the tables hanging off it (SpecStore)
    up,               \* one store_enriched_person_with_lead call (SpecStore)
    processing_leads_cache,  \* state.processing_leads_cache (SpecTrigger)
    clock,            \* chrono::Utc::now().timestamp() (SpecTrigger)
    trig,             \* per request: position in trigger_lead_processing
    google_ads_leads, \* table google_ads_leads (SpecGoogle)
    crm_leads,        \* leads created in the CRM by create_lead (SpecGoogle)
    gads              \* per delivery: position in google_ads_webhook_handler

\* the trigger endpoint and the Google Ads webhook
endpoints == <<processing_leads_cache, clock, trig, google_ads_leads, crm_leads, gads>>

vars == <<webhook_secret, webhook_events, req, tasks, redrives, job, breaker,
          seal, work_api_cache, fetch, contact_to_cpf_cache, recent_cpf_cache,
          store, up, endpoints>>

\* what the intake and the task runner never touch
aux == <<breaker, seal, work_api_cache, fetch, contact_to_cpf_cache,
         recent_cpf_cache, store, up, endpoints>>

Requests == 1..MaxRequests

(* --------------------------- pure functions --------------------------- *)

\* u8 bit operations of the fold in constant_time_compare
RECURSIVE BitXor(_, _)
BitXor(x, y) ==
    IF x = 0 /\ y = 0 THEN 0
    ELSE (((x % 2) + (y % 2)) % 2) + 2 * BitXor(x \div 2, y \div 2)

RECURSIVE BitOr(_, _)
BitOr(x, y) ==
    IF x = 0 /\ y = 0 THEN 0
    ELSE (IF (x % 2) = 1 \/ (y % 2) = 1 THEN 1 ELSE 0) + 2 * BitOr(x \div 2, y \div 2)

RECURSIVE FoldXor(_, _, _)
FoldXor(a, b, acc) ==
    IF a = << >> THEN acc
    ELSE FoldXor(Tail(a), Tail(b), BitOr(acc, BitXor(Head(a), Head(b))) % 256)

constant_time_compare(a, b) ==
    IF Len(a) # Len(b) THEN FALSE
    ELSE FoldXor(a, b, 0) = 0

\* HeaderValue::to_str: Ok only if every byte is visible ASCII (or tab)
IsVisibleAscii(b) == (b >= 32 /\ b < 127) \/ b = 9
to_str(v) ==
    IF \A i \in 1..Len(v) : IsVisibleAscii(v[i]) THEN Some(v) ELSE None

\* headers.get(..).or_else(..).and_then(|v| v.to_str().ok())
HeaderToken(headers) ==
    IF IsSome(headers) THEN to_str(Unwrap(headers)) ELSE None

\* Mutant: a request without token is refused when a secret is configured
validate_webhook_secret_strict(secret, headers) ==
    IF ~IsSome(secret) THEN Ok("unconfigured")
    ELSE LET token == HeaderToken(headers)
         IN IF IsSome(token)
            THEN IF ~constant_time_compare(Unwrap(token), Unwrap(secret))
                 THEN Err("Unauthorized: Invalid webhook token")
                 ELSE Ok("validated")
            ELSE Err("Unauthorized: Missing webhook token")

validate_webhook_secret(secret, headers) ==
    IF ~IsSome(secret) THEN Ok("unconfigured")
    ELSE LET token == HeaderToken(headers)
         IN IF IsSome(token)
            THEN IF ~constant_time_compare(Unwrap(token), Unwrap(secret))
                 THEN Err("Unauthorized: Invalid webhook token")
                 ELSE Ok("validated")
            ELSE Ok("no_token")

\* The three chrono parsers tried in order by parse_timestamp
parse_from_rfc3339(s) ==
    IF s.fmt = "rfc3339" THEN Ok(s.local - s.off) ELSE Err("rfc3339")
parse_from_str_tz(s) ==
    IF s.fmt = "space_tz" THEN Ok(s.local - s.off) ELSE Err("space_tz")
parse_naive(s) ==
    IF s.fmt = "naive" THEN Ok(s.local) ELSE Err("naive")

\* Mutant: an unparsable string falls back to a default instant
parse_timestamp_lenient(s) ==
    LET r1 == parse_from_rfc3339(s)
        r2 == IF r1.ok THEN r1 ELSE parse_from_str_tz(s)
        r3 == IF r2.ok THEN r2 ELSE parse_naive(s)
    IN IF r3.ok THEN r3 ELSE Ok(0)

parse_timestamp(s) ==
    LET r1 == parse_from_rfc3339(s)
        r2 == IF r1.ok THEN r1 ELSE parse_from_str_tz(s)
        r3 == IF r2.ok THEN r2 ELSE parse_naive(s)
    IN IF r3.ok THEN r3 ELSE Err("Bad request: Invalid timestamp format")


(* ------------------------- table webhook_events ----------------------- *)

\* Unique index on (lead_id, updated_at) of webhook_events.
UniquePairIndex == TRUE

SamePair(row, lead_id, updated_at) ==
    row.lead_id = lead_id /\ row.updated_at = updated_at

\* Mutant of the idempotency check: the version is not compared
already_processed_any_version(db, lead_id, updated_at) ==
    \E row \in db : row.lead_id = lead_id

\* SELECT EXISTS(SELECT 1 FROM webhook_events WHERE lead_id = $1 AND updated_at = $2)
already_processed(db, lead_id, updated_at) ==
    \E row \in db : row.lead_id = lead_id /\ row.updated_at = updated_at

\* INSERT INTO webhook_events (...) VALUES ($1, $2, $3, $4, 'received')
NewRow(db, lead_id, updated_at, payload_raw) ==
    [rid |-> Cardinality(db) + 1, lead_id |-> lead_id, updated_at |-> updated_at,
     status |-> "received", error_message |-> None, payload_raw |-> payload_raw]

\* Mutant: INSERT .. ON CONFLICT (lead_id, updated_at) DO UPDATE, the receipt
\* is written again in status 'received' and the call returns Ok
store_webhook_receipt_upsert(db, lead_id, updated_at, payload_raw) ==
    LET old == {row \in db : SamePair(row, lead_id, updated_at)}
    IN IF old = {}
       THEN Ok(db \cup {NewRow(db, lead_id, updated_at, payload_raw)})
       ELSE Ok((db \ old) \cup
               {[row EXCEPT !.status = "received", !.error_message = None,
                            !.payload_raw = payload_raw] : row \in old})

\* Mutant: the insert is not refused for a pair that has a row
store_webhook_receipt_no_index(db, lead_id, updated_at, payload_raw) ==
    Ok(db \cup {NewRow(db, lead_id, updated_at, payload_raw)})

store_webhook_receipt(db, lead_id, updated_at, payload_raw) ==
    IF UniquePairIndex /\ \E row \in db : SamePair(row, lead_id, updated_at)
    THEN Err("Database error: duplicate key value violates unique constraint")
    ELSE Ok(db \cup {NewRow(db, lead_id, updated_at, payload_raw)})

\* Mutant: the update does not match on the prior status
ProcessingTargets_any_status(db, lead_id, updated_at) ==
    {row \in db : SamePair(row, lead_id, updated_at)}

\* UPDATE .. SET status = 'processing' WHERE lead_id = $1 AND updated_at = $2
\*   AND status = 'received'
ProcessingTargets(db, lead_id, updated_at) ==
    {row \in db : SamePair(row, lead_id, updated_at) /\ row.status = "received"}

mark_webhook_processing(db, lead_id, updated_at) ==
    LET hit == ProcessingTargets(db, lead_id, updated_at)
    IN (db \ hit) \cup {[row EXCEPT !.status = "processing"] : row \in hit}

\* Mutant: the update does not match on the prior status
CompletedTargets_any_status(db, lead_id, updated_at) ==
    {row \in db : SamePair(row, lead_id, updated_at)}

\* UPDATE .. SET status = 'completed' WHERE lead_id = $1 AND updated_at = $2
\*   AND status = 'processing'
CompletedTargets(db, lead_id, updated_at) ==
    {row \in db : SamePair(row, lead_id, updated_at) /\ row.status = "processing"}

mark_webhook_completed(db, lead_id, updated_at) ==
    LET hit == CompletedTargets(db, lead_id, updated_at)
    IN (db \ hit) \cup {[row EXCEPT !.status = "completed"] : row \in hit}

\* Mutant: the update to 'failed' matches on status 'received'
FailedTargets_received_only(db, lead_id, updated_at) ==
    {row \in db : SamePair(row, lead_id, updated_at) /\ row.status = "received"}

\* UPDATE .. SET status = 'failed', error_message = $2 WHERE lead_id = $1
\*   AND updated_at = $3 AND status = 'processing'
FailedTargets(db, lead_id, updated_at) ==
    {row \in db : SamePair(row, lead_id, updated_at) /\ row.status = "processing"}

\* Mutant: the message is written, the status is left as it is
mark_webhook_failed_message_only(db, lead_id, updated_at, error_message) ==
    LET hit == FailedTargets(db, lead_id, updated_at)
    IN (db \ hit) \cup {[row EXCEPT !.error_message = Some(error_message)] : row \in hit}

mark_webhook_failed(db, lead_id, updated_at, error_message) ==
    LET hit == FailedTargets(db, lead_id, updated_at)
    IN (db \ hit) \cup
       {[row EXCEPT !.status = "failed", !.error_message = Some(error_message)] :
            row \in hit}

(* ----------------------- enrichment workflow -------------------------- *)

\* sqlx::Error converted by `?` into AppError::DatabaseError
DbError == "Database error: connection"

\* the error of an INSERT refused by a unique index
DuplicateKeyError == "Database error: duplicate key value violates unique constraint"

\* Contact strings of WebhookCustomer: a phone by what the validator reads of
\* it (length, blankness, the verdict of phonenumber::parse / is_valid), an
\* email by its characters.
PhoneStrings ==
    {[len |-> 0, blank |-> TRUE, parse |-> "error", e164 |-> ""],
     [len |-> 11, blank |-> FALSE, parse |-> "invalid", e164 |-> ""],
     [len |-> 11, blank |-> FALSE, parse |-> "valid", e164 |-> "+5511987654321"]}

\* n times the character c
Rep(c, n) == [i \in 1..n |-> c]

Sequential == <<"1", "2", "3", "4", "5", "6", "7", "8", "9">>

\* digit runs that hold one of the fake patterns, and runs that just miss them
FakeRuns ==
    {Rep("9", 6), Rep("1", 6), Rep("0", 6), Sequential,
     <<"1", "1">> \o Rep("9", 8) \o <<"3", "3", "3">>}
NearRuns == {Rep("9", 5), SubSeq(Sequential, 1, 8), Rep("9", 3) \o Rep("1", 3)}

\* Email strings, character by character: the empty string, a plain address,
\* addresses with a digit run in the local part or in the domain, a run
\* without an address around it, and addresses the regex refuses.
EmailTexts ==
    {<< >>, <<"a", "@", "b", ".", "c">>}
    \cup {<<"a">> \o r \o <<"@", "b", ".", "c">> : r \in FakeRuns \cup NearRuns}
    \cup {<<"a", "@">> \o Rep("0", 6) \o <<".", "c">>,
          Rep("9", 6) \o <<".", "c">>,
          <<"a", " ", "b", "@", "c", ".", "d">>,
          <<"a", "@", "b", ".", ".", "c">>}

EmailStrings == {[text |-> t, len |-> Len(t)] : t \in EmailTexts}

JobCustomers ==
    [phone : {None} \cup {Some(p) : p \in PhoneStrings},
     email : {None} \cup {Some(e) : e \in EmailStrings}]

Cpfs == {"123", "456"}

\* Result<Vec<DiretrixPersonSearch>, AppError> of search_by_phone / search_by_email
LookupResponses ==
    {Err("External API error: Diretrix"), Ok(<< >>),
     Ok(<<[cpf |-> "123"]>>), Ok(<<[cpf |-> "456"]>>),
     Ok(<<[cpf |-> "123"], [cpf |-> "456"]>>)}

\* Result<Option<ExistingEnrichment>, AppError> of the cache / database lookup
ExistingResponses ==
    {Err(DbError), Ok(None),
     Ok(Some([cpf |-> "123", enriched_data |-> None])),
     Ok(Some([cpf |-> "123", enriched_data |-> Some([cpf |-> "123"])]))}

\* an entry of contact_to_cpf_cache: absent, or a cached Option<ExistingEnrichment>
ContactEntries == {None} \cup {Some(r.val) : r \in {x \in ExistingResponses : x.ok}}

\* Result::ok()
ResultOk(r) == IF r.ok THEN Some(r.val) ELSE None

\* Option::filter(|s| !s.is_empty())
NonEmpty(o) == IF IsSome(o) /\ Unwrap(o).len > 0 THEN o ELSE None

\* str::contains(char)
has_char(text, c) == \E i \in 1..Len(text) : text[i] = c

\* Mutant: the pattern is looked for at the start of the string only
contains_at_start(text, pattern) ==
    /\ Len(text) >= Len(pattern)
    /\ SubSeq(text, 1, Len(pattern)) = pattern

\* str::contains(&str)
contains(text, pattern) ==
    \E i \in 0..(Len(text) - Len(pattern)) :
        SubSeq(text, i + 1, i + Len(pattern)) = pattern

fake_patterns == {Rep("9", 6), Rep("1", 6), Rep("0", 6), Sequential}

Alnum == {"a", "b", "c", "d", "0", "1", "2", "3", "4", "5", "6", "7", "8", "9"}

\* email_regex.is_match: a local part of allowed characters, one "@", and a
\* domain of dot-separated labels that begin and end with a letter or digit
\* (the strings here have no hyphen and no label longer than 63)
is_match(text) ==
    \E k \in 1..Len(text) :
        /\ text[k] = "@"
        /\ k > 1
        /\ \A i \in 1..(k - 1) : text[i] \in Alnum \cup {"."}
        /\ k < Len(text)
        /\ \A i \in (k + 1)..Len(text) : text[i] \in Alnum \cup {"."}
        /\ text[k + 1] # "." /\ text[Len(text)] # "."
        /\ \A i \in (k + 1)..(Len(text) - 1) : ~(text[i] = "." /\ text[i + 1] = ".")

is_valid_email(email) ==
    IF email.len < 5 \/ ~has_char(email.text, "@") \/ ~has_char(email.text, ".")
    THEN FALSE
    ELSE IF \E pattern \in fake_patterns : contains(email.text, pattern) THEN FALSE
    ELSE is_match(email.text)

\* (is_valid, normalized_phone_or_error_msg)
validate_br_phone(raw) ==
    IF raw.blank \/ raw.len < 8 THEN <<FALSE, "Phone too short">>
    ELSE IF raw.parse = "valid" THEN <<TRUE, raw.e164>>
    ELSE IF raw.parse = "invalid" THEN <<FALSE, "Invalid Brazilian phone number">>
    ELSE <<FALSE, "Parse error">>

\* find_cpf_via_diretrix: let validated_phone = ..
validated_phone(phone) ==
    IF IsSome(phone)
    THEN IF Unwrap(phone).len > 0
         THEN LET v == validate_br_phone(Unwrap(phone))
              IN IF v[1] THEN Some(v[2]) ELSE None
         ELSE None
    ELSE None

\* find_cpf_via_diretrix: let validated_email = ..
validated_email(email) ==
    IF IsSome(email)
    THEN IF Unwrap(email).len > 0 /\ is_valid_email(Unwrap(email))
         THEN email
         ELSE None
    ELSE None

\* Mutant: the last candidate of a channel is taken
first_cpf_last(lookup) ==
    IF IsSome(lookup) /\ Len(Unwrap(lookup)) > 0
    THEN Some(Unwrap(lookup)[Len(Unwrap(lookup))].cpf)
    ELSE None

\* lookup.as_ref().and_then(|results| if !results.is_empty() { Some(results[0].cpf) } ..)
first_cpf(lookup) ==
    IF IsSome(lookup) /\ Len(Unwrap(lookup)) > 0
    THEN Some(Unwrap(lookup)[1].cpf)
    ELSE None

NotFoundError == "Not found: Could not find CPF via Diretrix"

\* Mutant: a single unresolved channel fails the resolution
match_cpfs_both_required(phone_cpf, email_cpf) ==
    IF IsSome(phone_cpf) /\ IsSome(email_cpf)
    THEN IF Unwrap(phone_cpf) = Unwrap(email_cpf)
         THEN Ok([cpfs |-> <<Unwrap(phone_cpf)>>, same_person |-> TRUE])
         ELSE Ok([cpfs |-> <<Unwrap(phone_cpf), Unwrap(email_cpf)>>,
                  same_person |-> FALSE])
    ELSE Err(NotFoundError)

\* find_cpf_via_diretrix: match (&phone_cpf, &email_cpf) { .. }
match_cpfs(phone_cpf, email_cpf) ==
    IF IsSome(phone_cpf) /\ IsSome(email_cpf)
    THEN IF Unwrap(phone_cpf) = Unwrap(email_cpf)
         THEN Ok([cpfs |-> <<Unwrap(phone_cpf)>>, same_person |-> TRUE])
         ELSE Ok([cpfs |-> <<Unwrap(phone_cpf), Unwrap(email_cpf)>>,
                  same_person |-> FALSE])
    ELSE IF IsSome(phone_cpf)
    THEN Ok([cpfs |-> <<Unwrap(phone_cpf)>>, same_person |-> FALSE])
    ELSE IF IsSome(email_cpf)
    THEN Ok([cpfs |-> <<Unwrap(email_cpf)>>, same_person |-> FALSE])
    ELSE Err(NotFoundError)

\* The message body, by its banner, the profiles it carries and its sections:
\* the same-person body has one section without a channel label, the other
\* body a "PESSOA 1 (Telefone: ..)" section for enriched_data[0] and, if there
\* is a second profile, a "PESSOA 2 (Email: ..)" section for enriched_data[1]
format_enriched_message_body(enriched_data, same_person) ==
    IF same_person
    THEN [banner |-> "same_person", persons |-> <<enriched_data[1]>>,
          sections |-> <<[label |-> "both", person |-> enriched_data[1]]>>]
    ELSE [banner |-> "different_people",
          persons |-> IF Len(enriched_data) > 1
                      THEN <<enriched_data[1], enriched_data[2]>>
                      ELSE <<enriched_data[1]>>,
          sections |-> <<[label |-> "phone", person |-> enriched_data[1]]>>
                       \o (IF Len(enriched_data) > 1
                           THEN <<[label |-> "email", person |-> enriched_data[2]]>>
                           ELSE << >>)]

NoJob ==
    [pc |-> "none", lead_id |-> 0, updated_at |-> 0, customer |-> None,
     phone |-> None, email |-> None,
     validated_phone |-> None, validated_email |-> None,
     phone_lookup |-> None, email_lookup |-> None,
     phone_cpf |-> None, email_cpf |-> None,
     inflight |-> {},
     cpfs |-> << >>, same_person |-> FALSE, enriched_data |-> << >>,
     fetched |-> << >>, idx |-> 0,
     message |-> None, notify_calls |-> 0, sent |-> << >>,
     stored |-> {}, store_errors |-> 0,
     stages |-> << >>, cached |-> FALSE, cache_hit |-> FALSE,
     error |-> None, claimed |-> {}, db_error |-> FALSE]

(* ------------------------------- Init --------------------------------- *)

(* -------------- state after construction of the other parts ----------- *)

\* failsafe::Config::new().failure_policy(..).build(): closed, nothing counted.
\* Time is counted in units of 10 seconds.
InitBreaker ==
    [state |-> "closed", consecutive_failures |-> 0, attempt |-> 0,
     delay |-> 0, until |-> 0, now |-> 0, inflight |-> 0, last |-> "none"]

\* no ValidatedCacheEntry in use
NoSeal ==
    [pc |-> "none", s |-> << >>, entry |-> None, text |-> << >>, out |-> None,
     tampered |-> FALSE, corrupted |-> FALSE]

\* keys of state.work_api_cache for one documento: "all:{cpf}", "module:{m}:{cpf}"
WorkApiKeys == {"all", "module"}

\* no request to GET /api/v1/work/...
NoFetch ==
    [pc |-> "idle", key |-> "all", cached |-> None, hit |-> FALSE,
     validation_failed |-> FALSE, external_calls |-> 0, result |-> None,
     response |-> None,
     status |-> "none"]

\* keys of state.contact_to_cpf_cache for the contact of one event
ContactKeys == {"phone", "email"}

\* the tables written by store_enriched_person_with_lead, empty
EmptyStore ==
    [entities |-> {}, profiles |-> {}, financials |-> {}, emails |-> {},
     phones |-> {}]

\* no store_enriched_person_with_lead call
NoUpsert ==
    [pc |-> "idle", profile |-> None, entity_id |-> 0, i |-> 0,
     fin_exists |-> FALSE, clean |-> TRUE, first |-> None, same |-> TRUE,
     runs |-> 0, complete |-> 0, failed |-> 0]

\* no request to GET /api/v1/leads/process
NoTrigger ==
    [pc |-> "idle", lead_id |-> 0, now |-> 0, passed |-> FALSE,
     external_calls |-> 0, response |-> None]

\* no delivery to POST /api/v1/webhooks/google-ads
NoDelivery ==
    [pc |-> "idle", lead_id |-> 0, google_key |-> None, name |-> FALSE,
     enriched |-> FALSE, c2s_lead_id |-> 0, response |-> None]

EndpointsIdle ==
    /\ processing_leads_cache = [l \in LeadIds |-> None]
    /\ clock = 0
    /\ trig = [r \in 1..MaxTriggers |-> NoTrigger]
    /\ google_ads_leads = {}
    /\ crm_leads = << >>
    /\ gads = [d \in 1..MaxDeliveries |-> NoDelivery]

AuxIdle ==
    /\ EndpointsIdle
    /\ breaker = InitBreaker
    /\ seal = NoSeal
    /\ work_api_cache = [k \in WorkApiKeys |-> None]
    /\ fetch = NoFetch
    /\ contact_to_cpf_cache = [k \in ContactKeys |-> None]
    /\ recent_cpf_cache = {}
    /\ store = EmptyStore
    /\ up = NoUpsert

NoEvent == [id |-> 0, updated_at |-> None, customer |-> None]
NoResponse == [code |-> 0, received |-> 0, processed |-> 0, duplicates |-> 0]

IdleRequest ==
    [pc |-> "idle", headers |-> None, auth |-> "", n |-> 0, i |-> 0,
     event |-> NoEvent, updated_at_ts |-> 0, processed |-> 0, duplicates |-> 0,
     failed |-> 0, logged |-> None, response |-> NoResponse, after |-> {}]

Init ==
    /\ webhook_secret \in Secrets
    /\ webhook_events = {}
    /\ req = [r \in Requests |-> IdleRequest]
    /\ tasks = << >>
    /\ redrives = 0
    /\ job = NoJob
    /\ AuxIdle

(* --------------------------- c2s_webhook ------------------------------ *)

EventsClaimed == LET RECURSIVE Sum(_)
                     Sum(S) == IF S = {} THEN 0
                               ELSE LET r == CHOOSE x \in S : TRUE
                                    IN req[r].n + Sum(S \ {r})
                 IN Sum(Requests)

\* A request arrives: axum extracts the headers and the JSON payload
\* (WebhookPayload::into_events gives n events).
Receive(r) ==
    /\ req[r].pc = "idle"
    /\ \A q \in Requests : q < r => req[q].pc # "idle"
    /\ \E headers \in Headers, n \in 0..(MaxEvents - EventsClaimed - redrives) :
          req' = [req EXCEPT ![r] =
                    [@ EXCEPT !.pc = "validate", !.headers = headers, !.n = n,
                              !.after = {q \in Requests : req[q].pc = "done"}]]
    /\ UNCHANGED <<aux, job, webhook_secret, webhook_events, tasks, redrives>>

\* c2s_webhook step 1: validate_webhook_secret(&state, &headers)?
Validate(r) ==
    /\ req[r].pc = "validate"
    /\ LET v == validate_webhook_secret(webhook_secret, req[r].headers)
       IN req' = [req EXCEPT ![r] =
                    IF v.ok
                    THEN [@ EXCEPT !.pc = "loop", !.auth = v.val, !.headers = None]
                    ELSE [@ EXCEPT !.pc = "done", !.auth = "rejected",
                                   !.headers = None,
                                   !.response = [NoResponse EXCEPT !.code = 401]]]
    /\ UNCHANGED <<aux, job, webhook_secret, webhook_events, tasks, redrives>>

\* The Err(e) arm of the loop of c2s_webhook: log the error and continue
\* Mutant: the error of process_webhook_event is returned with `?`
EventFailed_propagate(rq, e) ==
    [rq EXCEPT !.pc = "done", !.failed = @ + 1, !.event = NoEvent,
               !.updated_at_ts = 0, !.logged = Some(e),
               !.response = [NoResponse EXCEPT !.code = 400]]

EventFailed(rq, e) ==
    [rq EXCEPT !.pc = "loop", !.i = @ + 1, !.failed = @ + 1, !.event = NoEvent,
               !.updated_at_ts = 0, !.logged = Some(e)]

\* for event in events: the loop of c2s_webhook binds the next event
NextEvent(r) ==
    /\ req[r].pc = "loop"
    /\ req[r].i < req[r].n
    /\ \E event \in Events :
          req' = [req EXCEPT ![r] = [@ EXCEPT !.pc = "check", !.event = event]]
    /\ UNCHANGED <<aux, job, webhook_secret, webhook_events, tasks, redrives>>

\* process_webhook_event up to the idempotency check
CheckEvent(r) ==
    /\ req[r].pc = "check"
    /\ \E db_up \in BOOLEAN :
         LET rq == req[r]
             event == rq.event
         IN IF ~IsSome(event.updated_at)
            THEN req' = [req EXCEPT ![r] =
                           EventFailed(rq, "Bad request: Missing updated_at in webhook event")]
            ELSE LET ts == parse_timestamp(Unwrap(event.updated_at))
                 IN IF ~ts.ok
                    THEN req' = [req EXCEPT ![r] = EventFailed(rq, ts.val)]
                    ELSE IF ~db_up
                    THEN req' = [req EXCEPT ![r] = EventFailed(rq, DbError)]
                    ELSE IF already_processed(webhook_events, event.id, ts.val)
                    THEN req' = [req EXCEPT ![r] =
                                   [rq EXCEPT !.pc = "loop", !.i = @ + 1,
                                              !.duplicates = @ + 1,
                                              !.event = NoEvent]]
                    ELSE req' = [req EXCEPT ![r] =
                                   [rq EXCEPT !.pc = "store",
                                              !.updated_at_ts = ts.val]]
    /\ UNCHANGED <<aux, job, webhook_secret, webhook_events, tasks, redrives>>

\* tokio::spawn of spawn_enrichment_job: a new detached task
NewTask(lead_id, updated_at, event) ==
    [lead_id |-> lead_id, updated_at |-> updated_at, event |-> event,
     pc |-> "spawned", claimed |-> {}, effects |-> {}, cached |-> FALSE,
     notified |-> 0, error |-> None, db_error |-> FALSE]

spawn_enrichment_job(ts, lead_id, updated_at, event) ==
    Append(ts, NewTask(lead_id, updated_at, event))

\* Mutant: the error of the insert is dropped instead of returned
InsertReceipt_ignore_error(db, rq, db_up) ==
    IF db_up
    THEN store_webhook_receipt(db, rq.event.id, rq.updated_at_ts, rq.event)
    ELSE Ok(db)

\* store_webhook_receipt(..).await? : the insert, or the error that `?` returns
InsertReceipt(db, rq, db_up) ==
    IF db_up
    THEN store_webhook_receipt(db, rq.event.id, rq.updated_at_ts, rq.event)
    ELSE Err(DbError)

\* process_webhook_event from store_webhook_receipt to its return
StoreEvent(r) ==
    /\ req[r].pc = "store"
    /\ \E db_up \in BOOLEAN :
         LET rq == req[r]
             ins == InsertReceipt(webhook_events, rq, db_up)
         IN IF ins.ok
            THEN /\ webhook_events' = ins.val
                 /\ tasks' = spawn_enrichment_job(tasks, rq.event.id,
                                                  rq.updated_at_ts, rq.event)
                 /\ req' = [req EXCEPT ![r] =
                              [rq EXCEPT !.pc = "loop", !.i = @ + 1,
                                         !.processed = @ + 1, !.event = NoEvent,
                                         !.updated_at_ts = 0]]
            ELSE /\ req' = [req EXCEPT ![r] = EventFailed(rq, ins.val)]
                 /\ UNCHANGED <<webhook_events, tasks>>
    /\ UNCHANGED <<aux, job, webhook_secret, redrives>>

\* c2s_webhook step 4: Ok((StatusCode::OK, Json(WebhookResponse{..})))
\* Mutant: received reports the events that were handled without error
WebhookResponse_handled_only(rq) ==
    [code |-> 200, received |-> rq.processed + rq.duplicates,
     processed |-> rq.processed, duplicates |-> rq.duplicates]

\* (StatusCode::OK, Json(WebhookResponse { status, received, processed, duplicates }))
WebhookResponse(rq) ==
    [code |-> 200, received |-> rq.n, processed |-> rq.processed,
     duplicates |-> rq.duplicates]

Respond(r) ==
    /\ req[r].pc = "loop"
    /\ req[r].i = req[r].n
    /\ req' = [req EXCEPT ![r] =
                 [IdleRequest EXCEPT
                    !.pc = "done", !.n = req[r].n, !.after = req[r].after,
                    !.logged = req[r].logged,
                    !.response = WebhookResponse(req[r])]]
    /\ UNCHANGED <<aux, job, webhook_secret, webhook_events, tasks, redrives>>

(* ---------------- the detached task of spawn_enrichment_job ------------ *)

Tasks == 1..Len(tasks)

SetTask(t, rec) == tasks' = [tasks EXCEPT ![t] = rec]

\* mark_webhook_processing(..).await: Err aborts the task, Ok (whatever
\* rows_affected is, zero only logs a warning) lets it run the workflow
TaskMarkProcessing(t) ==
    /\ tasks[t].pc = "spawned"
    /\ \E db_up \in BOOLEAN :
         LET tk == tasks[t]
         IN IF db_up
            THEN /\ webhook_events' =
                        mark_webhook_processing(webhook_events, tk.lead_id, tk.updated_at)
                 /\ SetTask(t, [tk EXCEPT !.pc = "workflow",
                                  !.claimed = {row.rid : row \in
                                      ProcessingTargets(webhook_events, tk.lead_id,
                                                        tk.updated_at)}])
            ELSE /\ SetTask(t, [tk EXCEPT !.pc = "aborted", !.event = NoEvent,
                                         !.db_error = TRUE])
                 /\ UNCHANGED webhook_events
    /\ UNCHANGED <<aux, job, webhook_secret, req, redrives>>

\* enrich_lead_workflow: customer extraction, then the cache/database
\* shortcut of enrich_and_send_workflow (find_existing_enrichment)
TaskFindExisting(t) ==
    /\ tasks[t].pc = "workflow"
    /\ LET tk == tasks[t]
       IN IF ~IsSome(tk.event.customer)
          THEN SetTask(t, [tk EXCEPT !.pc = "failing",
                             !.error = Some("Bad request: Missing customer data in webhook")])
          ELSE \E existing \in BOOLEAN :
                 SetTask(t, [tk EXCEPT !.pc = IF existing THEN "notify" ELSE "resolve",
                                !.cached = existing,
                                !.effects = @ \cup {"existing_lookup"}])
    /\ UNCHANGED <<aux, job, webhook_secret, webhook_events, req, redrives>>

\* Step 1: find_cpf_via_diretrix(phone, email, config).await?
TaskResolve(t) ==
    /\ tasks[t].pc = "resolve"
    /\ \E found \in BOOLEAN :
         LET tk == [tasks[t] EXCEPT !.effects = @ \cup {"identity_lookup"}]
         IN IF found
            THEN SetTask(t, [tk EXCEPT !.pc = "fetch"])
            ELSE SetTask(t, [tk EXCEPT !.pc = "failing",
                               !.error = Some("Not found: Could not find CPF via Diretrix")])
    /\ UNCHANGED <<aux, job, webhook_secret, webhook_events, req, redrives>>

\* Step 2: enrich_cpfs_with_work_api(&cpf_result.cpfs, config).await?
TaskFetch(t) ==
    /\ tasks[t].pc = "fetch"
    /\ \E enriched \in BOOLEAN :
         LET tk == [tasks[t] EXCEPT !.effects = @ \cup {"enrichment_fetch"}]
         IN IF enriched
            THEN SetTask(t, [tk EXCEPT !.pc = "notify"])
            ELSE SetTask(t, [tk EXCEPT !.pc = "failing",
                               !.error = Some("External API error: No enrichment data available")])
    /\ UNCHANGED <<aux, job, webhook_secret, webhook_events, req, redrives>>

\* Mutant: the error of send_message_to_c2s is logged and the workflow goes on
TaskNotify_swallowed(t) ==
    /\ tasks[t].pc = "notify"
    /\ \E sent \in BOOLEAN :
         LET tk == [tasks[t] EXCEPT !.effects = @ \cup {"crm_notify"}]
         IN SetTask(t, [tk EXCEPT !.pc = IF tk.cached THEN "completing" ELSE "store",
                                  !.notified = IF sent THEN @ + 1 ELSE @])
    /\ UNCHANGED <<aux, job, webhook_secret, webhook_events, req, redrives>>

\* Steps 3-4: format the message, send_message_to_c2s(..).await?
\* (the cached path returns Ok right after the send, without storing);
\* notified counts the messages the CRM accepted
TaskNotify(t) ==
    /\ tasks[t].pc = "notify"
    /\ \E sent \in BOOLEAN :
         LET tk == [tasks[t] EXCEPT !.effects = @ \cup {"crm_notify"}]
         IN IF sent
            THEN SetTask(t, [tk EXCEPT !.pc = IF tk.cached THEN "completing" ELSE "store",
                                       !.notified = @ + 1])
            ELSE SetTask(t, [tk EXCEPT !.pc = "failing",
                               !.error = Some("External API error: C2S send_message")])
    /\ UNCHANGED <<aux, job, webhook_secret, webhook_events, req, redrives>>

\* Step 5: store_enriched_data(..).await? (per-identifier errors are logged,
\* the function itself returns Ok)
TaskStore(t) ==
    /\ tasks[t].pc = "store"
    /\ SetTask(t, [tasks[t] EXCEPT !.pc = "completing",
                      !.effects = @ \cup {"storage_write"}])
    /\ UNCHANGED <<aux, job, webhook_secret, webhook_events, req, redrives>>

\* Ok(_) arm: mark_webhook_completed(..).await, an Err is only logged
TaskMarkCompleted(t) ==
    /\ tasks[t].pc = "completing"
    /\ \E db_up \in BOOLEAN :
         LET tk == [tasks[t] EXCEPT !.pc = "done", !.event = NoEvent,
                                    !.cached = FALSE, !.db_error = ~db_up,
                                    !.effects = @ \cup {"status_update"}]
         IN /\ SetTask(t, tk)
            /\ IF db_up
               THEN webhook_events' =
                       mark_webhook_completed(webhook_events, tk.lead_id, tk.updated_at)
               ELSE UNCHANGED webhook_events
    /\ UNCHANGED <<aux, job, webhook_secret, req, redrives>>

\* Err(e) arm: mark_webhook_failed(.., &e.to_string()).await, an Err is only logged
TaskMarkFailed(t) ==
    /\ tasks[t].pc = "failing"
    /\ \E db_up \in BOOLEAN :
         LET tk == [tasks[t] EXCEPT !.pc = "done", !.event = NoEvent,
                                    !.cached = FALSE, !.db_error = ~db_up,
                                    !.effects = @ \cup {"status_update"}]
         IN /\ SetTask(t, tk)
            /\ IF db_up
               THEN webhook_events' =
                       mark_webhook_failed(webhook_events, tk.lead_id, tk.updated_at,
                                           Unwrap(tk.error))
               ELSE UNCHANGED webhook_events
    /\ UNCHANGED <<aux, job, webhook_secret, req, redrives>>

TaskStep(t) ==
    \/ TaskMarkProcessing(t)
    \/ TaskFindExisting(t)
    \/ TaskResolve(t)
    \/ TaskFetch(t)
    \/ TaskNotify(t)
    \/ TaskStore(t)
    \/ TaskMarkCompleted(t)
    \/ TaskMarkFailed(t)

(* --------------------------- specifications --------------------------- *)

Next ==
    \/ \E r \in Requests : Receive(r)
    \/ \E r \in Requests : Validate(r)
    \/ \E r \in Requests : NextEvent(r)
    \/ \E r \in Requests : CheckEvent(r)
    \/ \E r \in Requests : StoreEvent(r)
    \/ \E r \in Requests : Respond(r)
    \/ \E t \in Tasks : TaskStep(t)

Spec == Init /\ [][Next]_vars

\* A second runner is started for a receipt that is still 'received' (a
\* re-drive of the same task body against the shared table).
Redrive ==
    /\ redrives < MaxRedrive
    /\ EventsClaimed + redrives < MaxEvents
    /\ \E row \in webhook_events :
         /\ row.status = "received"
         /\ tasks' = spawn_enrichment_job(tasks, row.lead_id, row.updated_at,
                                          row.payload_raw)
    /\ redrives' = redrives + 1
    /\ UNCHANGED <<aux, job, webhook_secret, webhook_events, req>>

NextRunner == Next \/ Redrive

SpecRunner == Init /\ [][NextRunner]_vars

\* Every request handler and every spawned task is polled until it returns.
Fairness ==
    /\ \A r \in Requests :
          WF_vars(Validate(r) \/ NextEvent(r) \/ CheckEvent(r) \/ StoreEvent(r) \/ Respond(r))
    /\ \A t \in 1..(MaxEvents + MaxRedrive) : WF_vars(t \in Tasks /\ TaskStep(t))

SpecFair == Spec /\ Fairness

TypeOK ==
    /\ webhook_secret \in Secrets
    /\ \A r \in Requests : req[r].pc \in {"idle", "validate", "loop", "check", "store", "done"}
    /\ \A t \in Tasks : tasks[t].pc \in
          {"spawned", "aborted", "workflow", "resolve", "fetch", "notify", "store",
           "completing", "failing", "done"}
    /\ \A row \in webhook_events :
          row.status \in {"received", "processing", "completed", "failed"}


(* ------------- one task of spawn_enrichment_job, stage by stage -------- *)

JobFail(j, e) == [j EXCEPT !.pc = "failing", !.error = Some(e)]

\* the stage a step belongs to, recorded when the task enters it
Stage(j, s) ==
    IF Len(j.stages) > 0 /\ j.stages[Len(j.stages)] = s
    THEN j.stages
    ELSE Append(j.stages, s)

\* the receipt has been stored and the task spawned for one event
InitJob ==
    /\ EndpointsIdle
    /\ webhook_secret = None
    /\ req = [r \in Requests |-> IdleRequest]
    /\ tasks = << >>
    /\ redrives = 0
    /\ \E c \in {None} \cup {Some(x) : x \in JobCustomers} :
         LET event == [id |-> 1,
                       updated_at |-> Some([fmt |-> "rfc3339", local |-> 1, off |-> 0]),
                       customer |-> c]
         IN /\ webhook_events = {NewRow({}, 1, 1, event)}
            /\ job = [NoJob EXCEPT !.pc = "spawned", !.lead_id = 1,
                                   !.updated_at = 1, !.customer = c]
    /\ breaker = InitBreaker
    /\ seal = NoSeal
    /\ work_api_cache = [k \in WorkApiKeys |-> None]
    /\ fetch = NoFetch
    /\ contact_to_cpf_cache \in [ContactKeys -> ContactEntries]
    /\ recent_cpf_cache \in SUBSET Cpfs
    /\ store = EmptyStore
    /\ up = NoUpsert

\* mark_webhook_processing(..).await at the start of the task
JobMarkProcessing ==
    /\ job.pc = "spawned"
    /\ \E db_up \in BOOLEAN :
         IF db_up
         THEN /\ webhook_events' =
                     mark_webhook_processing(webhook_events, job.lead_id, job.updated_at)
              /\ job' = [job EXCEPT !.pc = "extract",
                            !.claimed = {row.rid : row \in
                                ProcessingTargets(webhook_events, job.lead_id,
                                                  job.updated_at)}]
         ELSE /\ job' = [job EXCEPT !.pc = "aborted", !.db_error = TRUE]
              /\ UNCHANGED webhook_events
    /\ UNCHANGED <<aux, webhook_secret, req, tasks, redrives>>

\* enrich_lead_workflow: customer, phone and email of the event
JobExtract ==
    /\ job.pc = "extract"
    /\ job' = IF ~IsSome(job.customer)
              THEN JobFail(job, "Bad request: Missing customer data in webhook")
              ELSE [job EXCEPT !.pc = "existing",
                               !.phone = NonEmpty(Unwrap(job.customer).phone),
                               !.email = NonEmpty(Unwrap(job.customer).email)]
    /\ UNCHANGED <<aux, webhook_secret, webhook_events, req, tasks, redrives>>

\* find_existing_enrichment: the key under which the contact is cached
cache_key(j) ==
    IF IsSome(j.phone) THEN Some("phone")
    ELSE IF IsSome(j.email) THEN Some("email")
    ELSE None

\* Mutant: a cached entry is ignored once a profile is stored for the contact
JobExisting_ignore_profile(j, resp) == [j EXCEPT !.pc = "validate"]

\* if let Ok(Some(existing)) = find_existing_enrichment(..).await: a stored
\* profile that parses is formatted as same person and sent without lookups
JobExisting(j, resp) ==
    LET usable == /\ resp.ok
                  /\ IsSome(resp.val)
                  /\ IsSome(Unwrap(resp.val).enriched_data)
    IN IF usable
       THEN [j EXCEPT
               !.pc = "notify", !.cached = TRUE,
               !.cpfs = <<Unwrap(resp.val).cpf>>,
               !.same_person = TRUE,
               !.message = Some(format_enriched_message_body(
                    <<Unwrap(Unwrap(resp.val).enriched_data)>>, TRUE)),
               !.stages = Stage(j, "format")]
       ELSE [j EXCEPT !.pc = "validate"]

\* find_existing_enrichment: the cache first, then the database, whose answer
\* (found or not) is entered in the cache
JobFindExisting ==
    /\ job.pc = "existing"
    /\ LET key == cache_key(job)
       IN IF ~IsSome(key)
          THEN /\ job' = JobExisting(job, Ok(None))
               /\ UNCHANGED contact_to_cpf_cache
          ELSE IF IsSome(contact_to_cpf_cache[Unwrap(key)])
          THEN /\ job' = JobExisting([job EXCEPT !.cache_hit = TRUE],
                                     Ok(Unwrap(contact_to_cpf_cache[Unwrap(key)])))
               /\ UNCHANGED contact_to_cpf_cache
          ELSE \E resp \in ExistingResponses :
                 /\ job' = JobExisting(job, resp)
                 /\ contact_to_cpf_cache' =
                        IF resp.ok
                        THEN [contact_to_cpf_cache EXCEPT ![Unwrap(key)] = Some(resp.val)]
                        ELSE contact_to_cpf_cache
    /\ UNCHANGED <<endpoints, breaker, seal, work_api_cache, fetch, recent_cpf_cache, store,
                   up, webhook_secret, webhook_events, req, tasks, redrives>>

\* time_to_live of the caches: a live entry expires
CacheExpire ==
    /\ \/ /\ \E k \in ContactKeys :
               /\ IsSome(contact_to_cpf_cache[k])
               /\ contact_to_cpf_cache' = [contact_to_cpf_cache EXCEPT ![k] = None]
          /\ UNCHANGED recent_cpf_cache
       \/ /\ \E c \in recent_cpf_cache : recent_cpf_cache' = recent_cpf_cache \ {c}
          /\ UNCHANGED contact_to_cpf_cache
    /\ UNCHANGED <<endpoints, breaker, seal, work_api_cache, fetch, store, up, job,
                   webhook_secret, webhook_events, req, tasks, redrives>>

\* find_cpf_via_diretrix: validation of both channels
JobValidate ==
    /\ job.pc = "validate"
    /\ job' = [job EXCEPT !.pc = "phone_lookup",
                          !.validated_phone = validated_phone(job.phone),
                          !.validated_email = validated_email(job.email),
                          !.stages = Stage(job, "resolve")]
    /\ UNCHANGED <<aux, webhook_secret, webhook_events, req, tasks, redrives>>

\* let phone_lookup = if let Some(..) = validated_phone { search_by_phone(..)
JobPhoneIssue ==
    /\ job.pc = "phone_lookup"
    /\ job' = IF IsSome(job.validated_phone)
              THEN [job EXCEPT !.pc = "phone_wait", !.inflight = @ \cup {"phone"}]
              ELSE [job EXCEPT !.pc = "email_lookup", !.phone_lookup = None]
    /\ UNCHANGED <<aux, webhook_secret, webhook_events, req, tasks, redrives>>

\* .. .await.ok() }
JobPhoneReturn ==
    /\ job.pc = "phone_wait"
    /\ \E resp \in LookupResponses :
         job' = [job EXCEPT !.pc = "email_lookup", !.inflight = @ \ {"phone"},
                            !.phone_lookup = ResultOk(resp)]
    /\ UNCHANGED <<aux, webhook_secret, webhook_events, req, tasks, redrives>>

\* let email_lookup = if let Some(..) = validated_email { search_by_email(..)
JobEmailIssue ==
    /\ job.pc = "email_lookup"
    /\ job' = IF IsSome(job.validated_email)
              THEN [job EXCEPT !.pc = "email_wait", !.inflight = @ \cup {"email"}]
              ELSE [job EXCEPT !.pc = "match", !.email_lookup = None]
    /\ UNCHANGED <<aux, webhook_secret, webhook_events, req, tasks, redrives>>

\* .. .await.ok() }
JobEmailReturn ==
    /\ job.pc = "email_wait"
    /\ \E resp \in LookupResponses :
         job' = [job EXCEPT !.pc = "match", !.inflight = @ \ {"email"},
                            !.email_lookup = ResultOk(resp)]
    /\ UNCHANGED <<aux, webhook_secret, webhook_events, req, tasks, redrives>>

\* find_cpf_via_diretrix from the extraction of the CPFs to its return, and
\* the `?` of enrich_and_send_workflow
JobMatch ==
    /\ job.pc = "match"
    /\ LET phone_cpf == first_cpf(job.phone_lookup)
           email_cpf == first_cpf(job.email_lookup)
           r == match_cpfs(phone_cpf, email_cpf)
           j == [job EXCEPT !.phone_cpf = phone_cpf, !.email_cpf = email_cpf,
                            !.phone_lookup = None, !.email_lookup = None]
       IN job' = IF r.ok
                 THEN [j EXCEPT !.pc = "fetch", !.cpfs = r.val.cpfs,
                                !.same_person = r.val.same_person, !.idx = 1]
                 ELSE JobFail(j, r.val)
    /\ UNCHANGED <<aux, webhook_secret, webhook_events, req, tasks, redrives>>

\* enrich_cpfs_with_work_api: one turn of `for cpf in cpfs`
JobFetchOne ==
    /\ job.pc = "fetch"
    /\ job.idx <= Len(job.cpfs)
    /\ \E ok \in BOOLEAN :
         job' = [job EXCEPT
                   !.idx = @ + 1,
                   !.fetched = Append(@, [cpf |-> job.cpfs[job.idx], ok |-> ok]),
                   !.enriched_data = IF ok THEN Append(@, [cpf |-> job.cpfs[job.idx]])
                                     ELSE @,
                   !.stages = Stage(job, "fetch")]
    /\ UNCHANGED <<aux, webhook_secret, webhook_events, req, tasks, redrives>>

\* Mutant: one failed fetch fails the stage
JobFetchEnd_any_failure ==
    /\ job.pc = "fetch"
    /\ job.idx > Len(job.cpfs)
    /\ job' = IF Len(job.enriched_data) < Len(job.cpfs)
              THEN JobFail(job, "External API error: No enrichment data available")
              ELSE [job EXCEPT !.pc = "format"]
    /\ UNCHANGED <<aux, webhook_secret, webhook_events, req, tasks, redrives>>

\* enrich_cpfs_with_work_api: after the loop
JobFetchEnd ==
    /\ job.pc = "fetch"
    /\ job.idx > Len(job.cpfs)
    /\ job' = IF job.enriched_data = << >>
              THEN JobFail(job, "External API error: No enrichment data available")
              ELSE [job EXCEPT !.pc = "format"]
    /\ UNCHANGED <<aux, webhook_secret, webhook_events, req, tasks, redrives>>

\* Mutant: the profiles are stored before the CRM is notified
JobFormat_then_store ==
    /\ job.pc = "format"
    /\ job' = [job EXCEPT
                 !.pc = "store", !.idx = 1,
                 !.message = Some(format_enriched_message_body(job.enriched_data,
                                                               job.same_person)),
                 !.stages = Stage(job, "format")]
    /\ UNCHANGED <<aux, webhook_secret, webhook_events, req, tasks, redrives>>

\* Step 3 of enrich_and_send_workflow
JobFormat ==
    /\ job.pc = "format"
    /\ job' = [job EXCEPT
                 !.pc = "notify",
                 !.message = Some(format_enriched_message_body(job.enriched_data,
                                                               job.same_person)),
                 !.stages = Stage(job, "format")]
    /\ UNCHANGED <<aux, webhook_secret, webhook_events, req, tasks, redrives>>

\* the stage that follows send_message_to_c2s(..).await?
AfterNotify(cached) == IF cached THEN "completing" ELSE "store"

NotifyError == "External API error: C2S send message failed"

\* Mutant: the error of the notification is logged and the workflow goes on
NotifyFailed_swallowed(j) == [j EXCEPT !.pc = AfterNotify(j.cached), !.idx = 1]

\* the `?` after send_message_to_c2s(..).await returns the error
NotifyFailed(j) == JobFail(j, NotifyError)

\* send_message_to_c2s(..).await? on the stored-profile path and in Step 4
JobNotify ==
    /\ job.pc = "notify"
    /\ \E ok \in BOOLEAN :
         LET j == [job EXCEPT !.notify_calls = @ + 1,
                              !.stages = Stage(job, "notify")]
         IN job' = IF ok
                   THEN [j EXCEPT !.pc = AfterNotify(job.cached),
                                  !.sent = Append(@, Unwrap(job.message)),
                                  !.idx = 1]
                   ELSE NotifyFailed(j)
    /\ UNCHANGED <<aux, webhook_secret, webhook_events, req, tasks, redrives>>

\* Mutant: the error of a storage call is returned by the workflow
StoreFailed_propagate(j) == JobFail(j, "Database error: storage")

\* Err(e) arm of store_enriched_data: logged, the loop goes on
StoreFailed(j) == [j EXCEPT !.store_errors = @ + 1]

\* store_enriched_data: one turn of `for (idx, cpf) in cpfs.iter().enumerate()`.
\* store_enriched_person_with_lead runs its statements one by one on the pool;
\* k of them are applied before it returns (an Err when k < MaxStatements).
JobStoreOne ==
    /\ job.pc = "store"
    /\ job.idx <= Len(job.cpfs)
    /\ IF job.idx > Len(job.enriched_data)
       THEN job' = [job EXCEPT !.idx = @ + 1, !.stages = Stage(job, "store")]
       ELSE \E k \in 0..MaxStatements :
              LET j == [job EXCEPT
                          !.idx = @ + 1,
                          !.stored = @ \cup
                              {[cpf |-> job.cpfs[job.idx],
                                data |-> job.enriched_data[job.idx],
                                stmt |-> st] : st \in 1..k},
                          !.stages = Stage(job, "store")]
              IN job' = IF k < MaxStatements THEN StoreFailed(j) ELSE j
    /\ UNCHANGED <<aux, webhook_secret, webhook_events, req, tasks, redrives>>

\* store_enriched_data returns Ok(stored_entity_ids), the workflow returns Ok
JobStoreEnd ==
    /\ job.pc = "store"
    /\ job.idx > Len(job.cpfs)
    /\ job' = [job EXCEPT !.pc = "completing"]
    /\ UNCHANGED <<aux, webhook_secret, webhook_events, req, tasks, redrives>>

\* Ok(_) arm of spawn_enrichment_job
JobMarkCompleted ==
    /\ job.pc = "completing"
    /\ \E db_up \in BOOLEAN :
         /\ job' = [job EXCEPT !.pc = "done", !.db_error = ~db_up,
                               !.stages = Stage(job, "update")]
         /\ IF db_up
            THEN webhook_events' =
                    mark_webhook_completed(webhook_events, job.lead_id, job.updated_at)
            ELSE UNCHANGED webhook_events
    /\ UNCHANGED <<aux, webhook_secret, req, tasks, redrives>>

\* Err(e) arm of spawn_enrichment_job
JobMarkFailed ==
    /\ job.pc = "failing"
    /\ \E db_up \in BOOLEAN :
         /\ job' = [job EXCEPT !.pc = "done", !.db_error = ~db_up,
                               !.stages = Stage(job, "update")]
         /\ IF db_up
            THEN webhook_events' =
                    mark_webhook_failed(webhook_events, job.lead_id, job.updated_at,
                                        Unwrap(job.error))
            ELSE UNCHANGED webhook_events
    /\ UNCHANGED <<aux, webhook_secret, req, tasks, redrives>>

NextJob ==
    \/ JobMarkProcessing
    \/ JobExtract
    \/ JobFindExisting
    \/ JobValidate
    \/ JobPhoneIssue
    \/ JobPhoneReturn
    \/ JobEmailIssue
    \/ JobEmailReturn
    \/ JobMatch
    \/ JobFetchOne
    \/ JobFetchEnd
    \/ JobFormat
    \/ JobNotify
    \/ JobStoreOne
    \/ JobStoreEnd
    \/ JobMarkCompleted
    \/ JobMarkFailed
    \/ CacheExpire

SpecJob == InitJob /\ [][NextJob]_vars

JobTypeOK ==
    /\ job.pc \in {"spawned", "aborted", "extract", "existing", "validate",
                   "phone_lookup", "phone_wait", "email_lookup", "email_wait",
                   "match", "fetch", "format", "notify", "store", "completing",
                   "failing", "done"}
    /\ job.inflight \subseteq {"phone", "email"}
    /\ Len(job.cpfs) <= 2
    /\ Len(job.enriched_data) <= Len(job.cpfs)


(* --------------------------- circuit breaker -------------------------- *)
\* create_db_circuit_breaker: consecutive_failures(5, exponential(10s, 60s)).
\* The state machine itself is the one of section 4.2 of the specification
\* (the failsafe crate is not part of the repository sources).

FailureThreshold == 5     \* failure_policy::consecutive_failures(5, ..)

BackoffStart == 1         \* Duration::from_secs(10)
BackoffMax == 6           \* Duration::from_secs(60)
MaxAttempt == 3           \* from here on the backoff stays at BackoffMax

Min(a, b) == IF a <= b THEN a ELSE b

\* a backoff that keeps doubling (mutant of exponential_backoff)
exponential_backoff_uncapped(attempt) == (2 ^ attempt) * BackoffStart

\* backoff::exponential(start, max): start * 2^attempt, capped at max
exponential_backoff(attempt) == Min((2 ^ attempt) * BackoffStart, BackoffMax)

\* a policy that trips on any failure (mutant of failure_policy)
failure_policy_any(n) == n >= 1

\* failure_policy::consecutive_failures(5, backoff_strategy): trips at n
\* failures in a row
failure_policy(n) == n >= FailureThreshold

\* the policy counts one more failure; when it trips it takes the next
\* backoff from the iterator
mark_dead_on_failure(b) ==
    LET n == b.consecutive_failures + 1
    IN IF failure_policy(n)
       THEN [b EXCEPT !.consecutive_failures = n,
                      !.delay = exponential_backoff(b.attempt),
                      !.attempt = Min(b.attempt + 1, MaxAttempt),
                      !.state = "open",
                      !.until = b.now + exponential_backoff(b.attempt)]
       ELSE IF b.state = "half_open"
            THEN [b EXCEPT !.consecutive_failures = n, !.state = "open",
                           !.until = b.now + b.delay]
            ELSE [b EXCEPT !.consecutive_failures = n]

\* a failed call: counted while closed, re-opens a half-open breaker
on_error(b) ==
    IF b.state \in {"closed", "half_open"} THEN mark_dead_on_failure(b) ELSE b

\* a successful call: resets the count, closes a half-open breaker
on_success(b) ==
    IF b.state = "half_open"
    THEN [b EXCEPT !.state = "closed", !.consecutive_failures = 0, !.attempt = 0]
    ELSE [b EXCEPT !.consecutive_failures = 0]

\* closed and half-open admit; open admits once its window has elapsed
is_call_permitted(b) == b.state # "open" \/ b.now > b.until

\* circuit_breaker.call(..) up to the start of the wrapped operation
BreakerAdmit ==
    /\ breaker.inflight < MaxInFlight
    /\ breaker' =
         IF is_call_permitted(breaker)
         THEN [breaker EXCEPT
                 !.state = IF @ = "open" THEN "half_open" ELSE @,
                 !.inflight = @ + 1, !.last = "admitted"]
         ELSE [breaker EXCEPT !.last = "rejected"]
    /\ UNCHANGED <<webhook_secret, webhook_events, req, tasks, redrives, job,
                   seal, work_api_cache, fetch, contact_to_cpf_cache,
                   recent_cpf_cache, store, up, endpoints>>

\* the wrapped operation returns and its outcome is recorded
BreakerReturn ==
    /\ breaker.inflight > 0
    /\ \E success \in BOOLEAN :
         breaker' = [(IF success THEN on_success(breaker) ELSE on_error(breaker))
                        EXCEPT !.inflight = @ - 1,
                               !.last = IF success THEN "ok" ELSE "err"]
    /\ UNCHANGED <<webhook_secret, webhook_events, req, tasks, redrives, job,
                   seal, work_api_cache, fetch, contact_to_cpf_cache,
                   recent_cpf_cache, store, up, endpoints>>

\* ten seconds pass
BreakerTick ==
    /\ breaker.now < MaxTime
    /\ breaker' = [breaker EXCEPT !.now = @ + 1]
    /\ UNCHANGED <<webhook_secret, webhook_events, req, tasks, redrives, job,
                   seal, work_api_cache, fetch, contact_to_cpf_cache,
                   recent_cpf_cache, store, up, endpoints>>

InitIdle ==
    /\ webhook_secret = None
    /\ webhook_events = {}
    /\ req = [r \in Requests |-> IdleRequest]
    /\ tasks = << >>
    /\ redrives = 0
    /\ job = NoJob
    /\ AuxIdle

NextBreaker == BreakerAdmit \/ BreakerReturn \/ BreakerTick

SpecBreaker == InitIdle /\ [][NextBreaker]_vars

(* ----------------------- ValidatedCacheEntry -------------------------- *)
\* Characters of a cached string: a letter, the double quote and the
\* backslash (the two characters serde_json escapes inside a string).
DQ == "dq"
BS == "bs"
Chars == {"a", DQ, BS}
Strings == SeqsUpTo(Chars, MaxStrLen)

HexDigits == <<"0", "1", "2", "3", "4", "5", "6", "7",
               "8", "9", "a", "b", "c", "d", "e", "f">>

CharCode(c) == CASE c = "a" -> 1 [] c = DQ -> 2 [] c = BS -> 3

\* Sha256::digest(data): a digest without collisions on the strings considered
RECURSIVE Digest(_)
Digest(data) ==
    IF data = << >> THEN 0
    ELSE 4 * Digest(SubSeq(data, 1, Len(data) - 1)) + CharCode(data[Len(data)])

\* hex::encode of the digest
RECURSIVE hex_encode(_)
hex_encode(n) ==
    IF n < 16 THEN <<HexDigits[n + 1]>>
    ELSE hex_encode(n \div 16) \o <<HexDigits[(n % 16) + 1]>>

\* ValidatedCacheEntry::compute_checksum
compute_checksum(data) == hex_encode(Digest(data))

\* ValidatedCacheEntry::new
new(data) == [data |-> data, checksum |-> compute_checksum(data)]

\* ValidatedCacheEntry::is_valid
is_valid(entry) == compute_checksum(entry.data) = entry.checksum

\* serde_json: a string between double quotes, quote and backslash escaped
RECURSIVE escape(_)
escape(s) ==
    IF s = << >> THEN << >>
    ELSE (IF s[1] \in {DQ, BS} THEN <<BS, s[1]>> ELSE <<s[1]>>) \o escape(Tail(s))

quote(s) == <<DQ>> \o escape(s) \o <<DQ>>

\* a serialization that does not escape (mutant of serialize)
serialize_unescaped(entry) ==
    <<"{", "data:", DQ>> \o entry.data \o <<DQ, ",", "checksum:", DQ>>
        \o entry.checksum \o <<DQ, "}">>

\* ValidatedCacheEntry::serialize: serde_json::to_string(self)
serialize(entry) ==
    <<"{", "data:">> \o quote(entry.data) \o <<",", "checksum:">>
        \o quote(entry.checksum) \o <<"}">>

\* serde_json: the string literal that starts at position i of text, with
\* the position after its closing quote
RECURSIVE parse_chars(_, _, _)
parse_chars(text, i, acc) ==
    IF i > Len(text) THEN [ok |-> FALSE, val |-> << >>, next |-> i]
    ELSE IF text[i] = DQ THEN [ok |-> TRUE, val |-> acc, next |-> i + 1]
    ELSE IF text[i] = BS
         THEN IF i + 1 <= Len(text) /\ text[i + 1] \in {DQ, BS}
              THEN parse_chars(text, i + 2, Append(acc, text[i + 1]))
              ELSE [ok |-> FALSE, val |-> << >>, next |-> i]
    ELSE IF text[i] \in {"{", "}", ",", "data:", "checksum:"}
         THEN [ok |-> FALSE, val |-> << >>, next |-> i]
    ELSE parse_chars(text, i + 1, Append(acc, text[i]))

parse_string(text, i) ==
    IF i <= Len(text) /\ text[i] = DQ
    THEN parse_chars(text, i + 1, << >>)
    ELSE [ok |-> FALSE, val |-> << >>, next |-> i]

\* serde_json::from_str::<ValidatedCacheEntry>
from_str(text) ==
    IF Len(text) >= 2 /\ text[1] = "{" /\ text[2] = "data:"
    THEN LET d == parse_string(text, 3)
         IN IF d.ok /\ d.next + 1 <= Len(text)
                 /\ text[d.next] = "," /\ text[d.next + 1] = "checksum:"
            THEN LET c == parse_string(text, d.next + 2)
                 IN IF c.ok /\ c.next = Len(text) /\ text[c.next] = "}"
                    THEN Ok([data |-> d.val, checksum |-> c.val])
                    ELSE Err("syntax")
            ELSE Err("syntax")
    ELSE Err("syntax")

\* the content returned without validation (mutant of deserialize_and_validate)
deserialize_unvalidated(serialized) ==
    LET r == from_str(serialized)
    IN IF r.ok THEN Some(r.val.data) ELSE None

\* ValidatedCacheEntry::deserialize_and_validate
deserialize_and_validate(serialized) ==
    LET r == from_str(serialized)
    IN IF ~r.ok THEN None
       ELSE IF is_valid(r.val) THEN Some(r.val.data)
       ELSE None

\* texts a stored entry can turn into: cut short, one character lost, one
\* character replaced
Corruptions(text) ==
    ({SubSeq(text, 1, n) : n \in 0..(Len(text) - 1)}
       \cup {SubSeq(text, 1, i - 1) \o SubSeq(text, i + 1, Len(text)) :
               i \in 1..Len(text)}
       \cup {[text EXCEPT ![i] = c] : i \in 1..Len(text), c \in Chars})
      \ {text}

SealFrame ==
    <<webhook_secret, webhook_events, req, tasks, redrives, job, breaker,
      work_api_cache, fetch, contact_to_cpf_cache, recent_cpf_cache, store, up,
      endpoints>>

\* let entry = ValidatedCacheEntry::new(data)
SealNew ==
    /\ seal.pc = "input"
    /\ seal' = [seal EXCEPT !.pc = "sealed", !.entry = Some(new(seal.s))]
    /\ UNCHANGED SealFrame

\* entry.data = ..: the content replaced, the checksum kept
SealTamper ==
    /\ seal.pc = "sealed"
    /\ \E t \in Strings \ {seal.s} :
         seal' = [seal EXCEPT !.pc = "tampered", !.tampered = TRUE,
                              !.entry = Some([Unwrap(seal.entry) EXCEPT !.data = t])]
    /\ UNCHANGED SealFrame

\* let serialized = entry.serialize()
SealSerialize ==
    /\ seal.pc \in {"sealed", "tampered"}
    /\ seal' = [seal EXCEPT !.pc = "stored",
                            !.text = serialize(Unwrap(seal.entry))]
    /\ UNCHANGED SealFrame

\* the stored text is damaged
SealCorrupt ==
    /\ seal.pc = "stored"
    /\ ~seal.corrupted
    /\ \E t \in Corruptions(seal.text) :
         seal' = [seal EXCEPT !.text = t, !.corrupted = TRUE]
    /\ UNCHANGED SealFrame

\* ValidatedCacheEntry::deserialize_and_validate(&serialized)
SealUnseal ==
    /\ seal.pc = "stored"
    /\ seal' = [seal EXCEPT !.pc = "done",
                            !.out = deserialize_and_validate(seal.text)]
    /\ UNCHANGED SealFrame

InitSeal ==
    /\ EndpointsIdle
    /\ webhook_secret = None
    /\ webhook_events = {}
    /\ req = [r \in Requests |-> IdleRequest]
    /\ tasks = << >>
    /\ redrives = 0
    /\ job = NoJob
    /\ breaker = InitBreaker
    /\ \E s \in Strings : seal = [NoSeal EXCEPT !.pc = "input", !.s = s]
    /\ work_api_cache = [k \in WorkApiKeys |-> None]
    /\ fetch = NoFetch
    /\ contact_to_cpf_cache = [k \in ContactKeys |-> None]
    /\ recent_cpf_cache = {}
    /\ store = EmptyStore
    /\ up = NoUpsert

NextSeal == SealNew \/ SealTamper \/ SealSerialize \/ SealCorrupt \/ SealUnseal

SpecSeal == InitSeal /\ [][NextSeal]_vars

(* ------------- fetch_all_modules / fetch_module (handlers) ------------ *)
\* serde_json::to_string of a Work API response
ResponseTexts == {<<"a">>, <<DQ, BS>>} \cap Strings

\* serde_json::json!({"error": "No data"}) of fetch_module, as text
NoDataText == <<"a", "a">>

\* Result of WorkApiService::fetch_all_modules / fetch_module
WorkApiResults(key) ==
    {Err("External API error: Work API")}
        \cup {Ok(Some(t)) : t \in ResponseTexts}
        \cup (IF key = "module" THEN {Ok(None)} ELSE {})

\* serde_json::from_str::<WorkApiCompleteResponse / Value>(&valid_data)
from_str_response(text) ==
    IF text \in ResponseTexts \cup {NoDataText} THEN Ok(text) ELSE Err("syntax")

FetchFrame ==
    <<webhook_secret, webhook_events, req, tasks, redrives, job, breaker, seal,
      contact_to_cpf_cache, recent_cpf_cache, store, up, endpoints>>

\* params.get("documento") ... .ok_or_else(|| AppError::BadRequest(..))?
FetchStart ==
    /\ fetch.pc = "idle"
    /\ \E key \in WorkApiKeys, documento \in BOOLEAN :
         fetch' = IF documento
                  THEN [NoFetch EXCEPT !.pc = "get", !.key = key]
                  ELSE [NoFetch EXCEPT !.pc = "done", !.key = key,
                          !.response = Some(Err("Bad request: Missing 'documento' parameter"))]
    /\ UNCHANGED <<work_api_cache, FetchFrame>>

\* Mutant: an entry that fails validation is answered with an error
cache_lookup_hard_error(f, cached) ==
    IF ~IsSome(cached) THEN [f EXCEPT !.pc = "call"]
    ELSE LET valid_data == deserialize_and_validate(Unwrap(cached))
         IN IF ~IsSome(valid_data)
            THEN [f EXCEPT !.pc = "done", !.validation_failed = TRUE,
                           !.response = Some(Err("Internal error: cache validation"))]
            ELSE [f EXCEPT !.pc = "done", !.hit = TRUE,
                           !.response = Some(Ok(Unwrap(valid_data)))]

\* if let Some(cached) = state.work_api_cache.get(&cache_key).await { .. }
cache_lookup(f, cached) ==
    IF ~IsSome(cached) THEN [f EXCEPT !.pc = "call"]
    ELSE LET valid_data == deserialize_and_validate(Unwrap(cached))
         IN IF ~IsSome(valid_data)
            THEN [f EXCEPT !.pc = "call", !.validation_failed = TRUE]
            ELSE IF from_str_response(Unwrap(valid_data)).ok
            THEN [f EXCEPT !.pc = "done", !.hit = TRUE,
                           !.response = Some(Ok(Unwrap(valid_data)))]
            ELSE [f EXCEPT !.pc = "call"]

FetchCacheGet ==
    /\ fetch.pc = "get"
    /\ fetch' = cache_lookup(fetch, work_api_cache[fetch.key])
    /\ UNCHANGED <<work_api_cache, FetchFrame>>

\* work_api.fetch_all_modules(documento).await? / fetch_module(..).await?
\* and result.unwrap_or(json!({"error": "No data"}))
FetchExternal ==
    /\ fetch.pc = "call"
    /\ \E r \in WorkApiResults(fetch.key) :
         fetch' = IF r.ok
                  THEN [fetch EXCEPT !.pc = "insert",
                          !.external_calls = @ + 1,
                          !.status = IF IsSome(r.val) THEN "success" ELSE "non_success",
                          !.result = Some(IF IsSome(r.val) THEN Unwrap(r.val)
                                          ELSE NoDataText)]
                  ELSE [fetch EXCEPT !.pc = "done", !.external_calls = @ + 1,
                          !.status = "error",
                          !.response = Some(r)]
    /\ UNCHANGED <<work_api_cache, FetchFrame>>

\* state.work_api_cache.insert(cache_key, validated_entry.serialize()).await
\* and Ok(Json(result))
FetchInsert ==
    /\ fetch.pc = "insert"
    /\ work_api_cache' =
         [work_api_cache EXCEPT
            ![fetch.key] = Some(serialize(new(Unwrap(fetch.result))))]
    /\ fetch' = [fetch EXCEPT !.pc = "done",
                              !.response = Some(Ok(Unwrap(fetch.result)))]
    /\ UNCHANGED FetchFrame

\* the response is sent; the next request can start
FetchRespond ==
    /\ fetch.pc = "done"
    /\ fetch' = NoFetch
    /\ UNCHANGED <<work_api_cache, FetchFrame>>

\* time_to_live(3600 s): a live entry expires
WorkApiCacheExpire ==
    /\ \E k \in WorkApiKeys :
         /\ IsSome(work_api_cache[k])
         /\ work_api_cache' = [work_api_cache EXCEPT ![k] = None]
    /\ UNCHANGED <<fetch, FetchFrame>>

\* memory error, bit flip or poisoning of one cached text
WorkApiCacheCorrupt ==
    /\ \A k \in WorkApiKeys :
         IsSome(work_api_cache[k])
            => IsSome(deserialize_and_validate(Unwrap(work_api_cache[k])))
    /\ \E k \in WorkApiKeys :
         /\ IsSome(work_api_cache[k])
         /\ \E t \in Corruptions(Unwrap(work_api_cache[k])) :
              work_api_cache' = [work_api_cache EXCEPT ![k] = Some(t)]
    /\ UNCHANGED <<fetch, FetchFrame>>

NextFetch ==
    \/ FetchStart
    \/ FetchCacheGet
    \/ FetchExternal
    \/ FetchInsert
    \/ FetchRespond
    \/ WorkApiCacheExpire
    \/ WorkApiCacheCorrupt

SpecFetch == InitIdle /\ [][NextFetch]_vars

(* ---------------- store_enriched_person_with_lead --------------------- *)
\* The addresses (store_addresses) are left out: they follow the contacts.
\* What store_enriched_person_with_lead extracts from a Work API response:
\* dataNascimento, renda, scoreCSBA, the emails and the telefones.
Profiles ==
    [birth_date : {None, Some("1990-01-01")},
     renda : {None, Some(1900)},
     credit_score : {None, Some(700)},
     emails : {<< >>, <<"e1">>, <<"e1", "e2">>},
     phones : {<< >>, <<"p1">>}]

StoredCpf == "123"

\* unique index on (entity_id, value) of entity_emails and entity_phones
UniqueContactIndex == TRUE

NextId(rows, field) ==
    IF rows = {} THEN 1
    ELSE 1 + (CHOOSE n \in {r[field] : r \in rows} :
                 \A m \in {r[field] : r \in rows} : m <= n)

\* COALESCE(a, b)
Coalesce(a, b) == IF IsSome(a) THEN a ELSE b

\* SELECT entity_id FROM core.entities WHERE national_id = $1 LIMIT 1
find_entity(st, cpf) ==
    LET found == {e \in st.entities : e.national_id = cpf}
    IN IF found = {} THEN 0 ELSE (CHOOSE e \in found : TRUE).entity_id

\* UPDATE core.entities SET is_enriched = true, name = COALESCE(name, $2) ..
update_entity(st, cpf, p) ==
    [st EXCEPT !.entities =
        {IF e.national_id = cpf THEN [e EXCEPT !.is_enriched = TRUE] ELSE e :
            e \in st.entities}]

\* INSERT INTO core.entities (..) VALUES (..) RETURNING entity_id
insert_entity(st, cpf, p) ==
    [st EXCEPT !.entities = @ \cup
        {[entity_id |-> NextId(st.entities, "entity_id"), national_id |-> cpf,
          is_enriched |-> TRUE]}]

\* INSERT INTO core.entity_profiles .. ON CONFLICT (entity_id) DO UPDATE SET
\* birth_date = COALESCE(entity_profiles.birth_date, EXCLUDED.birth_date), ..
upsert_profile(st, entity_id, p) ==
    IF \E r \in st.profiles : r.entity_id = entity_id
    THEN [st EXCEPT !.profiles =
            {IF r.entity_id = entity_id
             THEN [r EXCEPT !.birth_date = Coalesce(r.birth_date, p.birth_date)]
             ELSE r : r \in st.profiles}]
    ELSE [st EXCEPT !.profiles = @ \cup
            {[entity_id |-> entity_id, birth_date |-> p.birth_date]}]

\* SELECT id FROM core.entity_financials WHERE entity_id = $1 AND financial_year = $2 ..
find_financials(st, entity_id) == \E f \in st.financials : f.entity_id = entity_id

\* a coalesce-merge of the financial attributes (mutant of update_financials)
update_financials_coalesce(st, entity_id, p) ==
    [st EXCEPT !.financials =
        {IF f.entity_id = entity_id
         THEN [f EXCEPT !.reported_income = Coalesce(p.renda, f.reported_income),
                        !.credit_score = Coalesce(p.credit_score, f.credit_score)]
         ELSE f : f \in st.financials}]

\* UPDATE core.entity_financials SET reported_income = $3, credit_score = $4, ..
update_financials(st, entity_id, p) ==
    [st EXCEPT !.financials =
        {IF f.entity_id = entity_id
         THEN [f EXCEPT !.reported_income = p.renda,
                        !.credit_score = p.credit_score]
         ELSE f : f \in st.financials}]

\* INSERT INTO core.entity_financials (..) VALUES (..)
insert_financials(st, entity_id, p) ==
    [st EXCEPT !.financials = @ \cup
        {[id |-> NextId(st.financials, "id"), entity_id |-> entity_id,
          reported_income |-> p.renda, credit_score |-> p.credit_score]}]

\* an insert into a contact table without the unique index (mutant of insert_contact)
insert_contact_no_index(rows, entity_id, value, is_primary) ==
    rows \cup {[id |-> NextId(rows, "id"), entity_id |-> entity_id,
                value |-> value, is_primary |-> is_primary]}

\* INSERT INTO core.entity_emails / entity_phones (..) VALUES (..) with its
\* result dropped: a row that exists already is left alone
insert_contact(rows, entity_id, value, is_primary) ==
    IF UniqueContactIndex /\ \E r \in rows : r.entity_id = entity_id /\ r.value = value
    THEN rows
    ELSE rows \cup {[id |-> NextId(rows, "id"), entity_id |-> entity_id,
                     value |-> value, is_primary |-> is_primary]}

StoreFrame ==
    <<webhook_secret, webhook_events, req, tasks, redrives, job, breaker, seal,
      work_api_cache, fetch, contact_to_cpf_cache, recent_cpf_cache, endpoints>>

\* a statement returned a database error and `?` leaves the function; the
\* statements already applied stay
UpsertFailed == [up EXCEPT !.pc = "idle", !.failed = @ + 1, !.profile = None,
                           !.entity_id = 0, !.i = 0, !.fin_exists = FALSE]

\* storage.store_enriched_person_with_lead(cpf, work_data, lead_id)
UpsertStart ==
    /\ up.pc = "idle"
    /\ up.runs < MaxUpserts
    /\ \E p \in Profiles :
         up' = [up EXCEPT !.pc = "find", !.profile = Some(p), !.runs = @ + 1,
                          !.clean = TRUE,
                          !.first = IF up.runs = 0 THEN Some(p) ELSE @,
                          !.same = up.runs = 0 \/ (@ /\ up.first = Some(p))]
    /\ UNCHANGED <<store, StoreFrame>>

\* Step 1: the entity is looked for
UpsertFindEntity ==
    /\ up.pc = "find"
    /\ \E db_ok \in BOOLEAN :
         up' = IF db_ok
               THEN [up EXCEPT !.pc = "entity",
                               !.entity_id = find_entity(store, StoredCpf)]
               ELSE UpsertFailed
    /\ UNCHANGED <<store, StoreFrame>>

\* Step 1: it is updated if it was found, inserted if not
UpsertEntity ==
    /\ up.pc = "entity"
    /\ \E db_ok \in BOOLEAN :
         IF db_ok
         THEN IF up.entity_id # 0
              THEN /\ store' = update_entity(store, StoredCpf, Unwrap(up.profile))
                   /\ up' = [up EXCEPT !.pc = "profile"]
              ELSE /\ store' = insert_entity(store, StoredCpf, Unwrap(up.profile))
                   /\ up' = [up EXCEPT !.pc = "profile",
                                !.entity_id = NextId(store.entities, "entity_id")]
         ELSE /\ up' = UpsertFailed
              /\ UNCHANGED store
    /\ UNCHANGED StoreFrame

\* Step 2: upsert of the profile
UpsertProfile ==
    /\ up.pc = "profile"
    /\ \E db_ok \in BOOLEAN :
         IF db_ok
         THEN /\ store' = upsert_profile(store, up.entity_id, Unwrap(up.profile))
              /\ up' = [up EXCEPT !.pc =
                          IF IsSome(Unwrap(up.profile).renda)
                               \/ IsSome(Unwrap(up.profile).credit_score)
                          THEN "fin_find" ELSE "emails", !.i = 1]
         ELSE /\ up' = UpsertFailed
              /\ UNCHANGED store
    /\ UNCHANGED StoreFrame

\* Step 3: if renda.is_some() || credit_score.is_some(): this year's row is
\* looked for
UpsertFinFind ==
    /\ up.pc = "fin_find"
    /\ \E db_ok \in BOOLEAN :
         up' = IF db_ok
               THEN [up EXCEPT !.pc = "fin_write",
                               !.fin_exists = find_financials(store, up.entity_id)]
               ELSE UpsertFailed
    /\ UNCHANGED <<store, StoreFrame>>

\* Step 3: it is updated if it exists, inserted if not
UpsertFinWrite ==
    /\ up.pc = "fin_write"
    /\ \E db_ok \in BOOLEAN :
         IF db_ok
         THEN /\ store' = IF up.fin_exists
                          THEN update_financials(store, up.entity_id, Unwrap(up.profile))
                          ELSE insert_financials(store, up.entity_id, Unwrap(up.profile))
              /\ up' = [up EXCEPT !.pc = "emails", !.i = 1]
         ELSE /\ up' = UpsertFailed
              /\ UNCHANGED store
    /\ UNCHANGED StoreFrame

\* store_emails: one turn of the loop; an error of the insert is dropped
UpsertEmail ==
    /\ up.pc = "emails"
    /\ LET emails == Unwrap(up.profile).emails
       IN IF up.i > Len(emails)
          THEN /\ up' = [up EXCEPT !.pc = "phones", !.i = 1]
               /\ UNCHANGED store
          ELSE \E db_ok \in BOOLEAN :
                 /\ store' = IF db_ok
                             THEN [store EXCEPT !.emails =
                                     insert_contact(@, up.entity_id, emails[up.i],
                                                    up.i = 1)]
                             ELSE store
                 /\ up' = [up EXCEPT !.i = @ + 1, !.clean = @ /\ db_ok]
    /\ UNCHANGED StoreFrame

\* store_phones: one turn of the loop; an error of the insert is dropped
UpsertPhone ==
    /\ up.pc = "phones"
    /\ LET phones == Unwrap(up.profile).phones
       IN IF up.i > Len(phones)
          THEN /\ up' = [up EXCEPT !.pc = "return"]
               /\ UNCHANGED store
          ELSE \E db_ok \in BOOLEAN :
                 /\ store' = IF db_ok
                             THEN [store EXCEPT !.phones =
                                     insert_contact(@, up.entity_id, phones[up.i],
                                                    up.i = 1)]
                             ELSE store
                 /\ up' = [up EXCEPT !.i = @ + 1, !.clean = @ /\ db_ok]
    /\ UNCHANGED StoreFrame

\* Ok(entity_id)
UpsertReturn ==
    /\ up.pc = "return"
    /\ up' = [up EXCEPT !.pc = "idle", !.profile = None, !.entity_id = 0,
                        !.i = 0, !.fin_exists = FALSE,
                        !.complete = IF up.clean THEN @ + 1 ELSE @,
                        !.failed = IF up.clean THEN @ ELSE @ + 1]
    /\ UNCHANGED <<store, StoreFrame>>

NextStore ==
    \/ UpsertStart
    \/ UpsertFindEntity
    \/ UpsertEntity
    \/ UpsertProfile
    \/ UpsertFinFind
    \/ UpsertFinWrite
    \/ UpsertEmail
    \/ UpsertPhone
    \/ UpsertReturn

SpecStore == InitIdle /\ [][NextStore]_vars

(* ------------------ GET /api/v1/leads/process (handlers.rs) ------------ *)
\* trigger_lead_processing up to the fetch of the lead, one request per
\* element of trig. The await points of the handler (cache get, cache insert,
\* the 100 ms sleep, the CRM call) separate its steps, so requests interleave
\* between them. The clock counts seconds, as chrono's timestamp() does; the
\* 300 s time_to_live of the cache is far beyond MaxSeconds, so no mark
\* expires here.
Triggers == 1..MaxTriggers

TriggerFrame ==
    <<webhook_secret, webhook_events, req, tasks, redrives, job, breaker, seal,
      work_api_cache, fetch, contact_to_cpf_cache, recent_cpf_cache, store, up,
      google_ads_leads, crm_leads, gads>>

\* Json(json!({ .., "duplicate_request": true }))
DuplicateResponse(message) ==
    Some(Ok([success |-> TRUE, message |-> message, duplicate_request |-> TRUE]))

\* params.get("id") .. ok_or_else(BadRequest)?; let now = Utc::now().timestamp()
TrigStart(r) ==
    /\ trig[r].pc = "idle"
    /\ \A q \in Triggers : q < r => trig[q].pc # "idle"
    /\ \E id \in {None} \cup {Some(l) : l \in LeadIds} :
         trig' = [trig EXCEPT ![r] =
                    IF IsSome(id)
                    THEN [@ EXCEPT !.pc = "check", !.lead_id = Unwrap(id), !.now = clock]
                    ELSE [@ EXCEPT !.pc = "done",
                             !.response = Some(Err("Bad request: Missing 'id' parameter"))]]
    /\ UNCHANGED <<processing_leads_cache, clock, TriggerFrame>>

\* if let Some(processing_since) = state.processing_leads_cache.get(lead_id).await
TrigCheck(r) ==
    /\ trig[r].pc = "check"
    /\ trig' = [trig EXCEPT ![r] =
                  IF IsSome(processing_leads_cache[trig[r].lead_id])
                  THEN [@ EXCEPT !.pc = "done",
                           !.response = DuplicateResponse("Lead already being processed")]
                  ELSE [@ EXCEPT !.pc = "insert"]]
    /\ UNCHANGED <<processing_leads_cache, clock, TriggerFrame>>

\* state.processing_leads_cache.insert(lead_id.to_string(), now).await
TrigInsert(r) ==
    /\ trig[r].pc = "insert"
    /\ processing_leads_cache' =
          [processing_leads_cache EXCEPT ![trig[r].lead_id] = Some(trig[r].now)]
    /\ trig' = [trig EXCEPT ![r] = [@ EXCEPT !.pc = "sleep"]]
    /\ UNCHANGED <<clock, TriggerFrame>>

\* the double-check: the request goes on unless the cache holds a timestamp
\* different from its own (`if cached_time != now { return .. }`)
won_the_race(r, cached_time) ==
    ~(IsSome(cached_time) /\ Unwrap(cached_time) # trig[r].now)

\* tokio::time::sleep(100 ms) is over; the second get of the cache
TrigRecheck(r) ==
    /\ trig[r].pc = "sleep"
    /\ trig' = [trig EXCEPT ![r] =
                  IF won_the_race(r, processing_leads_cache[trig[r].lead_id])
                  THEN [@ EXCEPT !.pc = "fetch_lead", !.passed = TRUE]
                  ELSE [@ EXCEPT !.pc = "done",
                           !.response = DuplicateResponse(
                               "Another concurrent request is processing this lead")]]
    /\ UNCHANGED <<processing_leads_cache, clock, TriggerFrame>>

\* Step 1: gateway.get_lead(lead_id).await
TrigFetchLead(r) ==
    /\ trig[r].pc = "fetch_lead"
    /\ \E ok \in BOOLEAN :
         trig' = [trig EXCEPT ![r] =
                    IF ok
                    THEN [@ EXCEPT !.pc = "enrich", !.external_calls = @ + 1]
                    ELSE [@ EXCEPT !.pc = "done", !.external_calls = @ + 1,
                             !.response = Some(Ok([success |-> FALSE,
                                  message |-> "Failed to fetch lead from C2S",
                                  duplicate_request |-> FALSE]))]]
    /\ UNCHANGED <<processing_leads_cache, clock, TriggerFrame>>

\* Steps 2-5: lookups, enrichment, message and storage for the lead
TrigEnrich(r) ==
    /\ trig[r].pc = "enrich"
    /\ \E success \in BOOLEAN :
         trig' = [trig EXCEPT ![r] =
                    [@ EXCEPT !.pc = "done", !.external_calls = @ + 1,
                       !.response = Some(Ok([success |-> success,
                            message |-> "processed",
                            duplicate_request |-> FALSE]))]]
    /\ UNCHANGED <<processing_leads_cache, clock, TriggerFrame>>

\* a second passes
ClockTick ==
    /\ clock < MaxSeconds
    /\ clock' = clock + 1
    /\ UNCHANGED <<processing_leads_cache, trig, TriggerFrame>>

NextTrigger ==
    \/ \E r \in Triggers : TrigStart(r)
    \/ \E r \in Triggers : TrigCheck(r)
    \/ \E r \in Triggers : TrigInsert(r)
    \/ \E r \in Triggers : TrigRecheck(r)
    \/ \E r \in Triggers : TrigFetchLead(r)
    \/ \E r \in Triggers : TrigEnrich(r)
    \/ ClockTick

SpecTrigger == InitIdle /\ [][NextTrigger]_vars

(* ------------- POST Google Ads webhook (google_ads_handler.rs) --------- *)
\* google_ads_webhook_handler, one delivery per element of gads. Its awaits
\* (the duplicate check, the inline enrichment, create_lead, the insert of
\* the tracking record) separate the steps, so deliveries interleave there.
Deliveries == 1..MaxDeliveries

GoogleKeys == {None, Some("good"), Some("bad")}

\* config.google_ads_webhook_key
ExpectedGoogleKey == "good"

\* google_lead_id is unique in google_ads_leads ("idempotency via unique
\* constraint")
UniqueGoogleLeadId == TRUE

GoogleFrame ==
    <<webhook_secret, webhook_events, req, tasks, redrives, job, breaker, seal,
      work_api_cache, fetch, contact_to_cpf_cache, recent_cpf_cache, store, up,
      processing_leads_cache, clock, trig>>

\* (StatusCode, Json(GoogleAdsWebhookResponse { .. })) or the AppError
GoogleResponse(code, message, c2s_lead_id) ==
    Some([code |-> code, message |-> message, c2s_lead_id |-> c2s_lead_id])

GadsDone(d, response) ==
    gads' = [gads EXCEPT ![d] = [@ EXCEPT !.pc = "done", !.response = response]]

\* axum extracts Query<GoogleAdsWebhookQuery> and Json<GoogleAdsWebhookPayload>
GadsReceive(d) ==
    /\ gads[d].pc = "idle"
    /\ \A q \in Deliveries : q < d => gads[q].pc # "idle"
    /\ \E l \in LeadIds, key \in GoogleKeys, name \in BOOLEAN :
         gads' = [gads EXCEPT ![d] =
                    [@ EXCEPT !.pc = "auth", !.lead_id = l, !.google_key = key,
                              !.name = name]]
    /\ UNCHANGED <<google_ads_leads, crm_leads, GoogleFrame>>

validate_google_key(provided_key) ==
    IF provided_key # ExpectedGoogleKey
    THEN Err("Unauthorized: Invalid google_key parameter")
    ELSE Ok(TRUE)

\* Step 1: the key is mandatory and checked before anything else
GadsValidateKey(d) ==
    /\ gads[d].pc = "auth"
    /\ IF ~IsSome(gads[d].google_key)
       THEN GadsDone(d, GoogleResponse(401, "Missing google_key parameter", None))
       ELSE IF ~validate_google_key(Unwrap(gads[d].google_key)).ok
       THEN GadsDone(d, GoogleResponse(401, "Invalid google_key parameter", None))
       ELSE gads' = [gads EXCEPT ![d] = [@ EXCEPT !.pc = "check"]]
    /\ UNCHANGED <<google_ads_leads, crm_leads, GoogleFrame>>

\* SELECT EXISTS(SELECT 1 FROM google_ads_leads WHERE google_lead_id = $1)
is_duplicate_lead(db, google_lead_id) ==
    \E row \in db : row.google_lead_id = google_lead_id

\* Step 2: if is_duplicate_lead(..).await? { return 200 duplicate }
GadsCheckDuplicate(d) ==
    /\ gads[d].pc = "check"
    /\ \E db_up \in BOOLEAN :
         IF ~db_up
         THEN GadsDone(d, GoogleResponse(500, DbError, None))
         ELSE IF is_duplicate_lead(google_ads_leads, gads[d].lead_id)
         THEN GadsDone(d, GoogleResponse(200, "Lead already processed (duplicate)", None))
         ELSE gads' = [gads EXCEPT ![d] = [@ EXCEPT !.pc = "enrich"]]
    /\ UNCHANGED <<google_ads_leads, crm_leads, GoogleFrame>>

\* Steps 3-6: the customer name is required; the inline enrichment may fail,
\* which only shortens the description
GadsEnrich(d) ==
    /\ gads[d].pc = "enrich"
    /\ IF ~gads[d].name
       THEN GadsDone(d, GoogleResponse(400, "Missing customer name in form data", None))
       ELSE \E enriched \in BOOLEAN :
              gads' = [gads EXCEPT ![d] = [@ EXCEPT !.pc = "create", !.enriched = enriched]]
    /\ UNCHANGED <<google_ads_leads, crm_leads, GoogleFrame>>

\* Step 7: c2s_service.create_lead(..).await?
GadsCreateLead(d) ==
    /\ gads[d].pc = "create"
    /\ \E ok \in BOOLEAN :
         IF ok
         THEN /\ crm_leads' = Append(crm_leads, [id |-> Len(crm_leads) + 1,
                                                 google_lead_id |-> gads[d].lead_id])
              /\ gads' = [gads EXCEPT ![d] =
                            [@ EXCEPT !.pc = "store", !.c2s_lead_id = Len(crm_leads) + 1]]
         ELSE /\ GadsDone(d, GoogleResponse(502, "External API error: C2S create lead", None))
              /\ UNCHANGED crm_leads
    /\ UNCHANGED <<google_ads_leads, GoogleFrame>>

\* INSERT INTO google_ads_leads (google_lead_id, c2s_lead_id, ..) VALUES (..)
store_google_ads_lead(db, google_lead_id, c2s_lead_id, enrichment_success) ==
    IF UniqueGoogleLeadId /\ is_duplicate_lead(db, google_lead_id)
    THEN Err(DuplicateKeyError)
    ELSE Ok(db \cup {[google_lead_id |-> google_lead_id, c2s_lead_id |-> c2s_lead_id,
                      enrichment_status |-> IF enrichment_success THEN "completed"
                                            ELSE "partial"]})

\* Step 8: store_google_ads_lead(..).await?, then 201 Created
GadsStore(d) ==
    /\ gads[d].pc = "store"
    /\ \E db_up \in BOOLEAN :
         LET ins == IF db_up
                    THEN store_google_ads_lead(google_ads_leads, gads[d].lead_id,
                                               gads[d].c2s_lead_id, gads[d].enriched)
                    ELSE Err(DbError)
         IN IF ins.ok
            THEN /\ google_ads_leads' = ins.val
                 /\ GadsDone(d, GoogleResponse(201, "Lead created and enriched successfully",
                                               Some(gads[d].c2s_lead_id)))
            ELSE /\ GadsDone(d, GoogleResponse(500, ins.val, None))
                 /\ UNCHANGED google_ads_leads
    /\ UNCHANGED <<crm_leads, GoogleFrame>>

NextGoogle ==
    \/ \E d \in Deliveries : GadsReceive(d)
    \/ \E d \in Deliveries : GadsValidateKey(d)
    \/ \E d \in Deliveries : GadsCheckDuplicate(d)
    \/ \E d \in Deliveries : GadsEnrich(d)
    \/ \E d \in Deliveries : GadsCreateLead(d)
    \/ \E d \in Deliveries : GadsStore(d)

SpecGoogle == InitIdle /\ [][NextGoogle]_vars

(* ------------------------ vocabulary of the claims -------------------- *)

\* The instant an updated_at string denotes, if it is a timestamp at all.
WellFormed(s) == s.fmt \in {"rfc3339", "space_tz", "naive"}
InstantOf(s) == s.local - s.off
HasVersion(event) == IsSome(event.updated_at) /\ WellFormed(Unwrap(event.updated_at))
VersionOf(event) == InstantOf(Unwrap(event.updated_at))

\* Receipts of a pair (event_id, version_timestamp)
Receipts(db, event_id, version) ==
    {row \in db : row.lead_id = event_id /\ row.updated_at = version}

CountedDuplicate(r) == req'[r].duplicates = req[r].duplicates + 1
CountedProcessed(r) == req'[r].processed = req[r].processed + 1
CountedFailed(r) == req'[r].failed = req[r].failed + 1
Spawned == Len(tasks') > Len(tasks)

Statuses == {"received", "processing", "completed", "failed"}

(* -------------------------------- C1 ---------------------------------- *)

OneReceiptPerPair ==
    \A a, b \in webhook_events :
        (a.lead_id = b.lead_id /\ a.updated_at = b.updated_at) => a = b

ClassifiedByReceipt(r) ==
    LET event == req[r].event
    IN /\ CountedDuplicate(r) =>
            /\ HasVersion(event)
            /\ Receipts(webhook_events, event.id, VersionOf(event)) # {}
       /\ CountedProcessed(r) =>
            /\ HasVersion(event)
            /\ Receipts(webhook_events, event.id, VersionOf(event)) = {}
            /\ Cardinality(Receipts(webhook_events', event.id, VersionOf(event))) = 1
       /\ ( /\ req[r].pc = "check"
            /\ req'[r].pc # "check"
            /\ ~CountedFailed(r)
            /\ HasVersion(event)
            /\ Receipts(webhook_events, event.id, VersionOf(event)) # {} )
          => CountedDuplicate(r)

\* C1: an event is counted as a duplicate exactly when a receipt with its
\* (event_id, version_timestamp) already exists, and as processed exactly when
\* none exists, in which case it gets exactly one receipt of its own; a pair
\* never has two receipts. Submitting a pair twice in sequence therefore
\* leaves one receipt and a second response with duplicates = 1, processed = 0,
\* while two versions of one event_id each get a receipt.
C1_IdempotentIntake ==
    /\ []OneReceiptPerPair
    /\ [][\A r \in Requests : ClassifiedByReceipt(r)]_vars

\* Two sequential single-event requests with the same pair: one receipt, the
\* second response reports one duplicate and nothing processed.
C1_Witness ==
    /\ req[1].pc = "done" /\ req[2].pc = "done"
    /\ 1 \in req[2].after
    /\ req[1].response = [code |-> 200, received |-> 1, processed |-> 1, duplicates |-> 0]
    /\ req[2].response = [code |-> 200, received |-> 1, processed |-> 0, duplicates |-> 1]
    /\ Cardinality(webhook_events) = 1

(* -------------------------------- C2 ---------------------------------- *)

\* C2: for every receipt at most one received->processing transition has
\* succeeded: no two runners have claimed the same row.
C2_ClaimedOnce ==
    \A t1, t2 \in Tasks : t1 # t2 => tasks[t1].claimed \cap tasks[t2].claimed = {}

\* Two runners of the same receipt have both executed the conditional update:
\* one claimed the row, the other affected zero rows.
C2_Witness ==
    \E t1, t2 \in Tasks :
        /\ t1 # t2
        /\ tasks[t1].lead_id = tasks[t2].lead_id
        /\ tasks[t1].updated_at = tasks[t2].updated_at
        /\ tasks[t1].claimed # {}
        /\ tasks[t2].claimed = {}
        /\ tasks[t2].pc \notin {"spawned", "aborted"}

(* -------------------------------- C3 ---------------------------------- *)

SideEffects ==
    {"identity_lookup", "enrichment_fetch", "crm_notify", "storage_write",
     "status_update"}

\* C3: a task whose conditional received->processing update affected zero
\* rows aborts without side effects: it performs no identity lookup, no
\* enrichment fetch, no CRM notification, no storage write and no further
\* status update.
C3_ZeroRowsAborts ==
    \A t \in Tasks :
        (tasks[t].pc \notin {"spawned"} /\ tasks[t].claimed = {})
            => tasks[t].effects \cap SideEffects = {}

(* -------------------------------- C4 ---------------------------------- *)

LegalTransitions ==
    {<<"received", "processing">>, <<"processing", "completed">>,
     <<"processing", "failed">>}

RowById(db, rid) == CHOOSE row \in db : row.rid = rid

\* C4: a receipt's status only changes along received -> processing ->
\* completed or received -> processing -> failed, a receipt is created in
\* status received, and a receipt is never deleted.
C4_StatusLifecycle ==
    [][/\ \A row \in webhook_events :
            /\ \E next \in webhook_events' : next.rid = row.rid
            /\ LET next == RowById(webhook_events', row.rid)
               IN next.status # row.status =>
                     <<row.status, next.status>> \in LegalTransitions
       /\ \A next \in webhook_events' :
            (\A row \in webhook_events : row.rid # next.rid) => next.status = "received"
      ]_vars

\* A receipt reached completed and another one failed.
C4_Witness ==
    /\ \E row \in webhook_events : row.status = "completed"
    /\ \E row \in webhook_events : row.status = "failed"


(* -------------------------------- C5 ---------------------------------- *)

\* C5: a step of the intake on an event whose (event_id, version_timestamp)
\* already has a receipt spawns no background task and leaves that receipt
\* (status, error_message, stored payload) unchanged, whatever its status.
C5_ResubmissionIsInert ==
    [][\A r \in Requests :
         LET event == req[r].event
         IN ( /\ req[r].pc \in {"check", "store"}
              /\ req'[r] # req[r]
              /\ HasVersion(event)
              /\ Receipts(webhook_events, event.id, VersionOf(event)) # {} )
            => /\ ~Spawned
               /\ Receipts(webhook_events', event.id, VersionOf(event))
                    = Receipts(webhook_events, event.id, VersionOf(event))
      ]_vars

\* An event was counted as a duplicate of a receipt that had already left
\* status received.
C5_Witness ==
    /\ Cardinality(webhook_events) = 1
    /\ \E row \in webhook_events : row.status \in {"processing", "completed", "failed"}
    /\ \E r \in Requests : req[r].pc = "loop" /\ req[r].duplicates = 1
    /\ Len(tasks) = 1

(* -------------------------------- C6 ---------------------------------- *)

RECURSIVE SumProcessed(_)
SumProcessed(S) ==
    IF S = {} THEN 0
    ELSE LET r == CHOOSE x \in S : TRUE
         IN (IF req[r].pc = "done" THEN req[r].response.processed ELSE req[r].processed)
            + SumProcessed(S \ {r})

\* C6: a background task exists only for an event whose receipt has been
\* inserted, every event counted as processed (in a response or so far) has a
\* receipt and a task, and the response is independent of the tasks: no task
\* step changes a request or its response, and a handler step never touches
\* an existing task.
C6_ResponseAfterInsertOnly ==
    /\ [](\A t \in Tasks : \E row \in webhook_events :
              SamePair(row, tasks[t].lead_id, tasks[t].updated_at))
    /\ [](SumProcessed(Requests) = Cardinality(webhook_events)
            /\ SumProcessed(Requests) = Len(tasks))
    /\ [][/\ (req' # req) => SubSeq(tasks', 1, Len(tasks)) = tasks
          /\ (\E t \in Tasks : tasks'[t] # tasks[t]) => req' = req]_vars

\* The response was returned while the receipt of its event was still
\* received and its task had not started.
C6_Witness ==
    \E r \in Requests :
        /\ req[r].pc = "done"
        /\ req[r].response = [code |-> 200, received |-> 1, processed |-> 1,
                              duplicates |-> 0]
        /\ \E row \in webhook_events : row.status = "received"
        /\ Len(tasks) = 1 /\ tasks[1].pc = "spawned"

(* -------------------------------- C7 ---------------------------------- *)

Settled(t) ==
    \A row \in webhook_events :
        row.rid \in tasks[t].claimed =>
            IF IsSome(tasks[t].error)
            THEN row.status = "failed" /\ row.error_message = tasks[t].error
            ELSE row.status = "completed" /\ row.error_message = None

\* C7 as stated: a task that has moved its receipt to processing and has run
\* to its end has moved the receipt to completed (workflow Ok) or to failed
\* with the error text (workflow Err).
C7_ClaimedReceiptSettled ==
    \A t \in Tasks : (tasks[t].pc = "done" /\ tasks[t].claimed # {}) => Settled(t)

\* C7 as amended: every task that has moved its receipt to processing runs to
\* its end, and then the receipt is completed or failed with the error text
\* unless the final status update itself returned a database error (which is
\* only logged); no step of a task changes a request or its response.
C7_SettledUnlessUpdateFails ==
    /\ <>[](\A t \in Tasks : tasks[t].claimed # {} => tasks[t].pc = "done")
    /\ [](\A t \in Tasks :
            (tasks[t].pc = "done" /\ tasks[t].claimed # {} /\ ~tasks[t].db_error)
                => Settled(t))
    /\ [][(\E t \in Tasks : tasks'[t] # tasks[t]) => req' = req]_vars

\* One task ended with its receipt completed, another with its receipt failed
\* carrying the error text.
C7_Witness ==
    \E t1, t2 \in Tasks :
        /\ tasks[t1].pc = "done" /\ tasks[t1].claimed # {} /\ ~tasks[t1].db_error
        /\ tasks[t2].pc = "done" /\ tasks[t2].claimed # {} /\ ~tasks[t2].db_error
        /\ ~IsSome(tasks[t1].error) /\ IsSome(tasks[t2].error)
        /\ \E row \in webhook_events :
              row.status = "failed" /\ row.error_message = tasks[t2].error

(* -------------------------------- C8 ---------------------------------- *)

Validated(r) == req[r].pc = "validate" /\ req'[r].pc # "validate"
Rejected(r) == req'[r].pc = "done" /\ req'[r].response.code = 401

\* C8: when a secret is configured and the request carries a token that is
\* not equal to it, the request is rejected with Unauthorized before any event
\* is examined.
C8_WrongTokenRejected ==
    [][\A r \in Requests :
         ( /\ Validated(r)
           /\ IsSome(webhook_secret)
           /\ IsSome(req[r].headers)
           /\ Unwrap(req[r].headers) # Unwrap(webhook_secret) )
         => Rejected(r)]_vars

(* -------------------------------- C9 ---------------------------------- *)

C10_BadTimestampNotPersisted ==
    /\ [][\A r \in Requests :
            (req[r].pc = "check" /\ req'[r] # req[r] /\ ~HasVersion(req[r].event))
            => /\ webhook_events' = webhook_events
               /\ ~Spawned
               /\ req'[r].pc = "loop"
               /\ CountedFailed(r)]_vars
    /\ [](\A row \in webhook_events :
            HasVersion(row.payload_raw) /\ row.updated_at = VersionOf(row.payload_raw))
    /\ [](\A t \in Tasks :
            tasks[t].pc \notin {"done", "aborted"} => HasVersion(tasks[t].event))

\* One request examined an event without updated_at, the other one an event
\* with an unparsable updated_at; nothing was recorded.
C10_Witness ==
    /\ req[1].logged = Some("Bad request: Missing updated_at in webhook event")
    /\ req[2].logged = Some("Bad request: Invalid timestamp format")
    /\ webhook_events = {}
    /\ tasks = << >>


(* -------------------------------- C11 --------------------------------- *)

ValidationErrors ==
    {"Bad request: Missing updated_at in webhook event",
     "Bad request: Invalid timestamp format"}

Responded(r) == req[r].pc = "loop" /\ req'[r].pc = "done"

LoggedValidationError(r) ==
    IsSome(req[r].logged) /\ Unwrap(req[r].logged) \in ValidationErrors

\* C11 as stated: when an event of a request had a validation error (missing
\* or malformed updated_at), the HTTP call of that request returns an error
\* and not the success summary.
C11_ValidationErrorFailsCall ==
    [][\A r \in Requests :
         (Responded(r) /\ LoggedValidationError(r)) => req'[r].response.code # 200]_vars

\* C11 as amended: a validation error on an event is only logged; the event is
\* counted neither as processed nor as duplicate, the loop goes on, and the
\* HTTP call of the request returns the 200 summary.
C11_ValidationErrorOnlyLogged ==
    /\ [][\A r \in Requests :
            (req[r].pc = "check" /\ req'[r] # req[r] /\ ~HasVersion(req[r].event))
            => /\ req'[r].pc = "loop"
               /\ req'[r].i = req[r].i + 1
               /\ req'[r].response = NoResponse
               /\ req'[r].processed = req[r].processed
               /\ req'[r].duplicates = req[r].duplicates
               /\ IsSome(req'[r].logged)
               /\ Unwrap(req'[r].logged) \in ValidationErrors]_vars
    /\ [][\A r \in Requests :
            (Responded(r) /\ LoggedValidationError(r))
            => req'[r].response = [code |-> 200, received |-> req[r].n,
                                   processed |-> req[r].processed,
                                   duplicates |-> req[r].duplicates]]_vars

\* A request whose only event had a validation error was answered with the
\* 200 summary.
C11_Witness ==
    \E r \in Requests :
        /\ req[r].pc = "done"
        /\ LoggedValidationError(r)
        /\ req[r].response = [code |-> 200, received |-> 1, processed |-> 0,
                              duplicates |-> 0]

(* -------------------------------- C12 --------------------------------- *)

FirstCandidate(lookup) ==
    IF IsSome(lookup) /\ Unwrap(lookup) # << >>
    THEN Some(Head(Unwrap(lookup)).cpf)
    ELSE None

Matched == job.pc = "match" /\ job'.pc # "match"

\* C13: reconciliation takes the first candidate of each channel and returns
\* one identifier with same_person = true when both channels give the same
\* identifier, both identifiers in the order [phone, email] with same_person =
\* false when they differ, the single identifier with same_person = false
\* when exactly one channel resolves, and NotFound when neither does.
C13_Reconciliation ==
    [][Matched =>
         LET p == FirstCandidate(job.phone_lookup)
             e == FirstCandidate(job.email_lookup)
         IN /\ (IsSome(p) /\ IsSome(e) /\ p = e)
                 => /\ job'.pc = "fetch"
                    /\ job'.cpfs = <<Unwrap(p)>>
                    /\ job'.same_person = TRUE
            /\ (IsSome(p) /\ IsSome(e) /\ p # e)
                 => /\ job'.pc = "fetch"
                    /\ job'.cpfs = <<Unwrap(p), Unwrap(e)>>
                    /\ job'.same_person = FALSE
            /\ (IsSome(p) /\ ~IsSome(e))
                 => /\ job'.pc = "fetch"
                    /\ job'.cpfs = <<Unwrap(p)>>
                    /\ job'.same_person = FALSE
            /\ (~IsSome(p) /\ IsSome(e))
                 => /\ job'.pc = "fetch"
                    /\ job'.cpfs = <<Unwrap(e)>>
                    /\ job'.same_person = FALSE
            /\ (~IsSome(p) /\ ~IsSome(e))
                 => /\ job'.pc = "failing"
                    /\ job'.error = Some(NotFoundError)
      ]_vars

\* Phone and email resolved to different identifiers: both are returned,
\* phone first, not the same person.
C13_Witness ==
    /\ job.pc = "fetch"
    /\ job.phone_cpf = Some("456") /\ job.email_cpf = Some("123")
    /\ job.cpfs = <<"456", "123">>
    /\ job.same_person = FALSE

(* -------------------------------- C14 --------------------------------- *)

BothResolvedSame ==
    /\ IsSome(job.phone_cpf)
    /\ IsSome(job.email_cpf)
    /\ job.phone_cpf = job.email_cpf

\* C14: the result is reported as same person (same_person = true, the 'same
\* person' message sent to the CRM) only if both the phone and the email were
\* resolved and resolved to the same identifier; when they resolve to
\* different identifiers the message sent says so.
C14_NoSilentMerge ==
    /\ \A i \in 1..Len(job.sent) :
          /\ job.sent[i].banner = "same_person" => BothResolvedSame
          /\ (IsSome(job.phone_cpf) /\ IsSome(job.email_cpf)
                /\ job.phone_cpf # job.email_cpf)
               => job.sent[i].banner = "different_people"
    /\ (job.pc \in {"completing", "done"} /\ job.same_person) => BothResolvedSame

(* -------------------------------- C15 --------------------------------- *)

Yields(lookup) == IsSome(lookup) /\ Len(Unwrap(lookup)) > 0

\* C15: validation and lookup of a channel never fail the resolution: a channel
\* that fails validation is not looked up and counts as unresolved, a lookup
\* that fails or returns no candidate counts as unresolved, and the resolution
\* returns NotFound if and only if neither channel yields an identifier.
C15_ChannelFailureDegrades ==
    /\ [][job.pc \in {"validate", "phone_lookup", "phone_wait", "email_lookup",
                      "email_wait"}
            => (job'.pc # "failing" /\ job'.error = None)]_vars
    /\ [](/\ (job.pc \in {"phone_wait", "email_lookup", "email_wait", "match"}
                /\ ~IsSome(job.validated_phone))
               => ("phone" \notin job.inflight /\ ~IsSome(job.phone_lookup))
          /\ (job.pc = "match" /\ ~IsSome(job.validated_email))
               => ("email" \notin job.inflight /\ ~IsSome(job.email_lookup)))
    /\ [][Matched =>
            /\ (job'.pc = "failing" /\ job'.error = Some(NotFoundError))
                 <=> (~Yields(job.phone_lookup) /\ ~Yields(job.email_lookup))
            /\ job'.pc \in {"failing", "fetch"}]_vars

\* The phone of the event failed validation, the email lookup resolved: the
\* resolution returned the email's identifier.
C15_Witness ==
    /\ job.pc = "fetch"
    /\ IsSome(job.phone) /\ ~IsSome(job.validated_phone)
    /\ ~IsSome(job.phone_cpf)
    /\ job.email_cpf = Some("123")
    /\ job.cpfs = <<"123">>

(* -------------------------------- C16 --------------------------------- *)

AllFetchesFailed == \A i \in 1..Len(job.fetched) : ~job.fetched[i].ok

RECURSIVE Fetched(_)
\* the profiles of the successful fetches, in the order of the attempts
Fetched(attempts) ==
    IF attempts = << >> THEN << >>
    ELSE IF Head(attempts).ok
         THEN <<[cpf |-> Head(attempts).cpf]>> \o Fetched(Tail(attempts))
         ELSE Fetched(Tail(attempts))

\* C16: the fetch is attempted for every identifier whatever the outcome of
\* the others, the stage fails if and only if all fetches failed, and
\* otherwise the pipeline goes on to format, notify and store with the
\* profiles of the fetches that succeeded.
C16_PartialFetchNotFatal ==
    /\ [][(job.pc = "fetch" /\ job'.pc # "fetch")
            => /\ [i \in 1..Len(job.fetched) |-> job.fetched[i].cpf] = job.cpfs
               /\ job'.enriched_data = Fetched(job.fetched)
               /\ (job'.pc = "failing") <=> AllFetchesFailed
               /\ (job'.pc # "failing") => job'.pc = "format"
               /\ (job'.pc = "failing")
                    => job'.error = Some("External API error: No enrichment data available")
         ]_vars
    /\ [][(job.pc = "fetch" /\ job.idx <= Len(job.cpfs) /\ job' # job)
            => (job'.pc = "fetch" /\ job'.idx = job.idx + 1)]_vars
    /\ [](\A i \in 1..Len(job.sent) :
            ~job.cached => job.sent[i].persons = Fetched(job.fetched))
    /\ [](\A st \in job.stored :
            \E i \in 1..Len(job.fetched) : job.fetched[i].ok /\ st.data.cpf = job.fetched[i].cpf)

\* Two identifiers, the first fetch failed and the second succeeded: the
\* message was sent and a profile stored, and the receipt is completed.
C16_Witness ==
    /\ job.pc = "done"
    /\ job.fetched = <<[cpf |-> "123", ok |-> FALSE], [cpf |-> "456", ok |-> TRUE]>>
    /\ Len(job.sent) = 1
    /\ job.stored # {}
    /\ \A row \in webhook_events : row.status = "completed"

(* -------------------------------- C17 --------------------------------- *)

NotifyReturnedError == job.error = Some(NotifyError)

ReceiptFailedWith(e) ==
    \A row \in webhook_events : row.status = "failed" /\ row.error_message = e

\* C17 as stated: when the CRM notification returned an error, the task ends
\* with its receipt in status failed carrying the error message, the
\* notification was called once and nothing was stored.
C17_NotifyErrorFailsReceipt ==
    (job.pc = "done" /\ NotifyReturnedError)
        => /\ ReceiptFailedWith(job.error)
           /\ job.notify_calls = 1
           /\ job.stored = {}

\* C17 as amended: when the CRM notification returned an error, the workflow
\* returns that error without retrying the notification and without any
\* storage upsert, and the task ends with the receipt failed carrying the
\* error message unless the update to failed itself returned a database error.
C17_NotifyErrorFailsTask ==
    /\ [][(job.pc = "notify" /\ job' # job /\ job'.sent = job.sent)
            => /\ job'.pc = "failing"
               /\ job'.error = Some(NotifyError)
               /\ job'.notify_calls = job.notify_calls + 1]_vars
    /\ [](NotifyReturnedError
            => /\ job.pc \in {"failing", "done"}
               /\ job.notify_calls = 1
               /\ job.sent = << >>
               /\ job.stored = {}
               /\ "store" \notin {job.stages[i] : i \in 1..Len(job.stages)})
    /\ []((job.pc = "done" /\ NotifyReturnedError /\ ~job.db_error)
            => ReceiptFailedWith(job.error))
    /\ []((job.pc = "done" /\ NotifyReturnedError)
            => \A row \in webhook_events : row.status # "completed")

\* The notification returned an error after two profiles had been fetched: the
\* receipt is failed with the message and nothing is stored.
C17_Witness ==
    /\ job.pc = "done"
    /\ NotifyReturnedError
    /\ Len(job.enriched_data) = 2
    /\ ReceiptFailedWith(Some(NotifyError))
    /\ job.stored = {}

(* -------------------------------- C18 --------------------------------- *)

ReceiptStatus(st) == \A row \in webhook_events : row.status = st

\* C18 as stated: when a storage upsert returned an error, the task ends with
\* its receipt in status failed, never completed.
C18_StoreErrorFailsReceipt ==
    (job.pc = "done" /\ job.store_errors > 0) => ReceiptStatus("failed")

\* C18 as amended: an error of a storage upsert is only logged: the loop goes
\* on with the next identifier, the workflow returns success and the task
\* moves the receipt to completed (it stays in processing if that update
\* returns a database error), never to failed; statements already applied are
\* not undone.
C18_StoreErrorOnlyLogged ==
    /\ [][job.pc = "store"
            => /\ job'.pc \in {"store", "completing"}
               /\ job'.error = None]_vars
    /\ [][job.stored \subseteq job'.stored]_vars
    /\ []((job.pc = "done" /\ job.store_errors > 0)
            => /\ job.error = None
               /\ ~job.db_error => ReceiptStatus("completed")
               /\ job.db_error => ReceiptStatus("processing"))

\* The upsert of the first identifier failed after its first statement, the
\* second identifier was stored in full, and the receipt is completed.
C18_Witness ==
    /\ job.pc = "done"
    /\ job.store_errors = 1
    /\ ReceiptStatus("completed")
    /\ {st.stmt : st \in {x \in job.stored : x.cpf = job.cpfs[1]}} = {1}
    /\ Len(job.cpfs) = 2
    /\ {st.stmt : st \in {x \in job.stored : x.cpf = job.cpfs[2]}} = 1..MaxStatements

(* -------------------------------- C19 --------------------------------- *)

StageRank(s) ==
    CASE s = "resolve" -> 1
      [] s = "fetch" -> 2
      [] s = "format" -> 3
      [] s = "notify" -> 4
      [] s = "store" -> 5
      [] s = "update" -> 6

StagesOf(j) == {j.stages[i] : i \in 1..Len(j.stages)}

C20_LookupsConcurrent ==
    (/\ "phone" \in job.inflight
     /\ IsSome(job.validated_email)
     /\ "email" \notin job.inflight
     /\ ~IsSome(job.email_lookup))
        => ENABLED JobEmailIssue

(* ------------------------------- C21 ---------------------------------- *)
\* a step of circuit_breaker.call(..), as opposed to the passing of time
BreakerCallStep == breaker'.now = breaker.now /\ breaker' # breaker
CallReturned == breaker'.inflight = breaker.inflight - 1
CallFailed == CallReturned /\ breaker'.last = "err"
CallSucceeded == CallReturned /\ breaker'.last = "ok"
WindowOpen == breaker.state = "open" /\ breaker.now <= breaker.until

\* C21: a closed breaker opens exactly on the failed call that makes 5
\* consecutive failures (a successful call resets the count, a failed one
\* adds one to it), and a call made while the breaker is open and its window
\* has not elapsed is rejected without the wrapped operation being started.
C21_OpensAfterFiveFailures ==
    [][BreakerCallStep =>
         /\ (breaker.state = "closed" /\ CallSucceeded)
               => (breaker'.consecutive_failures = 0 /\ breaker'.state = "closed")
         /\ (breaker.state = "closed" /\ CallFailed)
               => /\ breaker'.consecutive_failures = breaker.consecutive_failures + 1
                  /\ (breaker'.state = "open") =
                        (breaker'.consecutive_failures = 5)
                  /\ breaker'.state \in {"closed", "open"}
         /\ (breaker.state = "closed" /\ ~CallReturned)
               => (breaker'.state = "closed" /\ breaker'.last = "admitted")
         /\ (WindowOpen /\ ~CallReturned)
               => /\ breaker'.last = "rejected"
                  /\ breaker'.inflight = breaker.inflight
                  /\ breaker'.state = "open"]_vars

\* the fifth consecutive failure has opened the breaker and a call was rejected
C21_Witness ==
    /\ breaker.state = "open"
    /\ breaker.consecutive_failures = 5
    /\ breaker.last = "rejected"
    /\ breaker.inflight = 0

(* ------------------------------- C22 ---------------------------------- *)
\* C22: an open breaker admits a call only after its window has elapsed; the
\* window is 10 s the first time, never above 60 s; a successful probe closes
\* the breaker with the count reset, a failed probe re-opens it with a window
\* that is not shorter than the one before.
C22_ProbeAfterBackoff ==
    [][BreakerCallStep =>
         /\ (breaker.state = "open" /\ breaker'.inflight = breaker.inflight + 1)
               => (breaker.now > breaker.until /\ breaker'.state = "half_open")
         /\ (breaker.state = "closed" /\ breaker'.state = "open")
               => /\ breaker'.until = breaker.now + breaker'.delay
                  /\ breaker'.delay = 1
         /\ breaker'.state = "open"
               => (breaker'.delay >= 1 /\ breaker'.delay <= 6)
         /\ (breaker.state = "half_open" /\ CallSucceeded)
               => (breaker'.state = "closed" /\ breaker'.consecutive_failures = 0)
         /\ (breaker.state = "half_open" /\ CallFailed)
               => /\ breaker'.state = "open"
                  /\ breaker'.delay >= breaker.delay
                  /\ breaker'.until = breaker.now + breaker'.delay]_vars

\* a failed probe has re-opened the breaker with a longer window
C22_Witness ==
    /\ breaker.state = "open"
    /\ breaker.last = "err"
    /\ breaker.delay > 1
    /\ breaker.consecutive_failures > 5

(* ------------------------------- C23 ---------------------------------- *)
\* an identity lookup or an enrichment fetch is started / has returned an error
LookupIssued ==
    \/ job.pc = "phone_lookup" /\ job'.pc = "phone_wait"
    \/ job.pc = "email_lookup" /\ job'.pc = "email_wait"
FetchDone == job.pc = "fetch" /\ Len(job'.fetched) = Len(job.fetched) + 1
ExternalCallFailed ==
    \/ job.pc = "phone_wait" /\ job'.pc = "email_lookup" /\ ~IsSome(job'.phone_lookup)
    \/ job.pc = "email_wait" /\ job'.pc = "match" /\ ~IsSome(job'.email_lookup)
    \/ FetchDone /\ ~job'.fetched[Len(job'.fetched)].ok

\* C23: every identity lookup and enrichment fetch of a background task goes
\* through the circuit breaker: the call is admitted by the breaker before it
\* is made (never while the breaker is open) and a failed call is counted.
C23_CallsThroughBreaker ==
    [][/\ (LookupIssued \/ FetchDone)
            => (is_call_permitted(breaker) /\ breaker' # breaker)
       /\ ExternalCallFailed
            => (\/ breaker'.consecutive_failures = breaker.consecutive_failures + 1
                \/ breaker'.state = "open")]_vars

(* ------------------------------- C24 ---------------------------------- *)
\* C24: a string that is sealed, serialized and then deserialized and
\* validated comes back unchanged: the result is Some(s).
C24_ChecksumRoundTrip ==
    (seal.pc = "done" /\ ~seal.tampered /\ ~seal.corrupted)
        => seal.out = Some(seal.s)

\* a string containing a quote and a backslash made the round trip
C24_Witness ==
    /\ seal.pc = "done" /\ ~seal.tampered /\ ~seal.corrupted
    /\ \E i, k \in 1..Len(seal.s) : seal.s[i] = DQ /\ seal.s[k] = BS
    /\ seal.out = Some(seal.s)

(* ------------------------------- C25 ---------------------------------- *)
\* C25: an entry whose content was replaced by a different string while the
\* checksum was kept does not validate, and a text that does not deserialize
\* to an entry does not either: deserialize_and_validate returns None.
C25_TamperDetected ==
    /\ (seal.pc = "done" /\ seal.tampered /\ ~seal.corrupted) => seal.out = None
    /\ (seal.pc = "done" /\ ~from_str(seal.text).ok) => seal.out = None

\* a tampered entry that still deserializes was rejected
C25_Witness ==
    /\ seal.pc = "done" /\ seal.tampered /\ ~seal.corrupted
    /\ from_str(seal.text).ok
    /\ from_str(seal.text).val.data # seal.s
    /\ from_str(seal.text).val.checksum = compute_checksum(seal.s)
    /\ seal.out = None

(* ------------------------------- C27 ---------------------------------- *)
\* the channels for which an external lookup is started in this step
ChannelsIssued ==
    {ch \in ContactKeys : ch \notin job.inflight /\ ch \in job'.inflight}

\* the entry under the task's cache key is live, positive and carries a profile
LiveProfile ==
    /\ IsSome(cache_key(job))
    /\ LET entry == contact_to_cpf_cache[Unwrap(cache_key(job))]
       IN /\ IsSome(entry)
          /\ IsSome(Unwrap(entry))
          /\ IsSome(Unwrap(Unwrap(entry)).enriched_data)

\* C27 (as claimed): while an entry of the contact cache is live for a
\* channel, cached negatives included, no external lookup is started for
\* that channel.
C27_LiveEntryShortCircuits ==
    [][\A ch \in ChannelsIssued : ~IsSome(contact_to_cpf_cache[ch])]_vars

\* C27 (amended): a task that finds, under its cache key, a live positive
\* entry carrying a stored profile goes straight to the notification and
\* starts no external lookup; the cache is left as it was.
C27_LiveProfileShortCircuits ==
    [][/\ (job.pc = "existing" /\ LiveProfile /\ job' # job)
            => /\ job'.cached /\ job'.cache_hit /\ job'.pc = "notify"
               /\ contact_to_cpf_cache' = contact_to_cpf_cache
       /\ job.cached => (ChannelsIssued = {} /\ job'.cached)
       /\ job'.cached
            => /\ job'.inflight = {}
               /\ ~IsSome(job'.phone_lookup) /\ ~IsSome(job'.email_lookup)
               /\ "resolve" \notin StagesOf(job')]_vars

\* a task served from the cache has notified the CRM without any lookup
C27_Witness ==
    /\ job.cache_hit /\ job.cached
    /\ job.sent # << >>
    /\ "resolve" \notin StagesOf(job)
    /\ job.pc = "done"

(* ------------------------------- C28 ---------------------------------- *)
\* C28: the enrichment stage does not fetch an identifier that has a live
\* entry in recent_cpf_cache, and an identifier enters that cache only in a
\* step that fetched it successfully.
C28_SkipsRecentlyProcessed ==
    [][/\ FetchDone => job.cpfs[job.idx] \notin recent_cpf_cache
       /\ \A c \in recent_cpf_cache' \ recent_cpf_cache :
            /\ FetchDone
            /\ job'.fetched[Len(job'.fetched)] = [cpf |-> c, ok |-> TRUE]]_vars

(* ------------------------------- C26 ---------------------------------- *)
CachedText == work_api_cache[fetch.key]
Validates(c) == IsSome(c) /\ IsSome(deserialize_and_validate(Unwrap(c)))

\* C26: the handlers read the cache first. A live entry that validates is
\* answered from the cache without an external call; an entry that fails
\* validation is handled as a miss, without an error: the external endpoint
\* is called, its result is the response, and after a success the entry is a
\* sealed, valid text of that result.
C26_InvalidEntryIsMiss ==
    [][/\ (fetch.pc = "get" /\ fetch' # fetch /\ Validates(CachedText))
            => /\ fetch'.pc = "done"
               /\ fetch'.response = Some(Ok(Unwrap(deserialize_and_validate(
                                                     Unwrap(CachedText)))))
               /\ fetch'.external_calls = fetch.external_calls
       /\ (fetch.pc = "get" /\ fetch' # fetch /\ ~Validates(CachedText))
            => /\ fetch'.pc = "call"
               /\ fetch'.response = None
               /\ [fetch' EXCEPT !.validation_failed = FALSE]
                     = cache_lookup(fetch, None)
       /\ (fetch.pc = "call" /\ fetch' # fetch)
            => /\ fetch'.external_calls = fetch.external_calls + 1
               /\ \/ fetch'.pc = "insert" /\ IsSome(fetch'.result)
                  \/ /\ fetch'.pc = "done"
                     /\ IsSome(fetch'.response) /\ ~Unwrap(fetch'.response).ok
       /\ (fetch.pc = "insert" /\ fetch' # fetch)
            => /\ fetch'.response = Some(Ok(Unwrap(fetch.result)))
               /\ Validates(work_api_cache'[fetch.key])
               /\ deserialize_and_validate(Unwrap(work_api_cache'[fetch.key]))
                     = fetch.result
       /\ (fetch.pc # "insert") => work_api_cache'[fetch.key] = CachedText
                                     \/ fetch' = fetch]_vars

\* an entry that failed validation was refetched and replaced by a valid one
C26_Witness ==
    /\ fetch.pc = "done"
    /\ fetch.validation_failed
    /\ fetch.external_calls = 1
    /\ IsSome(fetch.response) /\ Unwrap(fetch.response).ok
    /\ Validates(CachedText)
    /\ deserialize_and_validate(Unwrap(CachedText)) = fetch.result

(* ------------------------------- C29 ---------------------------------- *)
\* all the statements of one call, applied in order without an error
RECURSIVE InsertAll(_, _, _, _)
InsertAll(rows, entity_id, values, i) ==
    IF i > Len(values) THEN rows
    ELSE InsertAll(insert_contact(rows, entity_id, values[i], i = 1),
                   entity_id, values, i + 1)

StoreOnce(st, cpf, p) ==
    LET found == find_entity(st, cpf)
        s1 == IF found # 0 THEN update_entity(st, cpf, p) ELSE insert_entity(st, cpf, p)
        id == find_entity(s1, cpf)
        s2 == upsert_profile(s1, id, p)
        s3 == IF IsSome(p.renda) \/ IsSome(p.credit_score)
              THEN IF find_financials(s2, id) THEN update_financials(s2, id, p)
                   ELSE insert_financials(s2, id, p)
              ELSE s2
    IN [s3 EXCEPT !.emails = InsertAll(@, id, p.emails, 1),
                  !.phones = InsertAll(@, id, p.phones, 1)]

\* the rows of a table without their generated ids
Contacts(rows) ==
    {[entity_id |-> r.entity_id, value |-> r.value, is_primary |-> r.is_primary] :
        r \in rows}
Financials(rows) ==
    {[entity_id |-> r.entity_id, reported_income |-> r.reported_income,
      credit_score |-> r.credit_score] : r \in rows}

SameRows(st, once) ==
    /\ st.entities = once.entities
    /\ st.profiles = once.profiles
    /\ Financials(st.financials) = Financials(once.financials)
    /\ Cardinality(st.financials) = Cardinality(once.financials)
    /\ Contacts(st.emails) = Contacts(once.emails)
    /\ Cardinality(st.emails) = Cardinality(once.emails)
    /\ Contacts(st.phones) = Contacts(once.phones)
    /\ Cardinality(st.phones) = Cardinality(once.phones)

NoDuplicates(rows) ==
    \A r1, r2 \in rows :
        (r1.entity_id = r2.entity_id /\ r1.value = r2.value) => r1 = r2

Kept(before, after) == IsSome(before) => IsSome(after)

\* C30: no statement of a later upsert replaces a present attribute of a
\* stored party by null, removes the party or clears its enriched flag.
C30_NeverNulled ==
    [][/\ \A e \in store.entities :
            \E e2 \in store'.entities :
                /\ e2.entity_id = e.entity_id /\ e2.national_id = e.national_id
                /\ e.is_enriched => e2.is_enriched
       /\ \A r \in store.profiles :
            \E r2 \in store'.profiles :
                r2.entity_id = r.entity_id /\ Kept(r.birth_date, r2.birth_date)
       /\ \A f \in store.financials :
            \E f2 \in store'.financials :
                /\ f2.id = f.id
                /\ Kept(f.reported_income, f2.reported_income)
                /\ Kept(f.credit_score, f2.credit_score)]_vars

(* ------------------------------- C31 ---------------------------------- *)
\* the body formatted by Step 3 (or by the stored-profile path) of the task
Formatted == IsSome(job.message)

\* C31: the formatter emits the single combined section, without the
\* different-persons warning, whenever same_person is true or exactly one
\* profile is supplied, and the different-persons report, with its two
\* sections, only when two profiles are supplied and same_person is false.
C31_SingleSectionUnlessTwoDifferent ==
    Formatted =>
        LET m == Unwrap(job.message)
        IN /\ (job.same_person \/ Len(job.enriched_data) = 1)
                => (m.banner = "same_person" /\ Len(m.sections) = 1)
           /\ m.banner = "different_people"
                => (Len(job.enriched_data) = 2 /\ ~job.same_person
                      /\ Len(m.sections) = 2)

(* ------------------------------- C32 ---------------------------------- *)
\* the email of the customer holds one of the four patterns as a substring
FakeEmail ==
    /\ IsSome(job.email)
    /\ \E pattern \in {Rep("9", 6), Rep("1", 6), Rep("0", 6), Sequential} :
          \E i \in 1..Unwrap(job.email).len :
              /\ i + Len(pattern) - 1 <= Unwrap(job.email).len
              /\ \A n \in 1..Len(pattern) :
                    Unwrap(job.email).text[i + n - 1] = pattern[n]

ResolvedBy(label) == IF label = "phone" THEN job.phone_cpf ELSE job.email_cpf

\* C33: every enriched profile stays attached to the identifier and channel
\* it was fetched for, also when one of two fetches fails: a profile is stored
\* only under the identifier whose fetch returned it, and in the report sent
\* to the CRM for two resolved persons the section labeled with the phone
\* holds the profile of the phone-resolved identifier, the section labeled
\* with the email the profile of the email-resolved identifier.
C33_ProfilesStayAttached ==
    /\ \A st \in job.stored : st.data.cpf = st.cpf
    /\ Len(job.cpfs) = 2 =>
          \A i \in 1..Len(job.sent) :
              \A n \in 1..Len(job.sent[i].sections) :
                  LET section == job.sent[i].sections[n]
                  IN section.label \in {"phone", "email"}
                       => ResolvedBy(section.label) = Some(section.person.cpf)

(* ------------------------------- C34 ---------------------------------- *)

\* C34: whatever the interleaving of concurrent intake requests that carry
\* the same (event_id, version_timestamp), the pair has at most one receipt
\* row and at most one background task is spawned for it: with the unique
\* index on the pair, two requests that both pass the check never both spawn.
C34_OneTaskPerPair ==
    /\ \A a, b \in webhook_events :
          SamePair(a, b.lead_id, b.updated_at) => a.rid = b.rid
    /\ \A t1, t2 \in Tasks :
          (tasks[t1].lead_id = tasks[t2].lead_id
             /\ tasks[t1].updated_at = tasks[t2].updated_at) => t1 = t2
    /\ Len(tasks) <= Cardinality(webhook_events)

\* Two overlapping requests carried the same pair and both passed the check:
\* one inserted the receipt and spawned the task, the insert of the other was
\* refused by the index.
C34_Witness ==
    /\ req[1].pc = "done" /\ req[2].pc = "done"
    /\ 1 \notin req[2].after
    /\ req[1].response.processed + req[2].response.processed = 1
    /\ req[1].logged = Some(DuplicateKeyError) \/ req[2].logged = Some(DuplicateKeyError)
    /\ Cardinality(webhook_events) = 1
    /\ Len(tasks) = 1

(* ------------------------------- C35 ---------------------------------- *)
\* the tasks spawned for the pair of a receipt
TasksOf(row) ==
    {t \in Tasks : tasks[t].lead_id = row.lead_id /\ tasks[t].updated_at = row.updated_at}

RECURSIVE SumNotified(_)
SumNotified(T) ==
    IF T = {} THEN 0
    ELSE LET t == CHOOSE x \in T : TRUE
         IN tasks[t].notified + SumNotified(T \ {t})

\* C35: under any interleaving of intake requests and background tasks, a
\* receipt is completed only if the CRM accepted the notification of its
\* event, and for any one receipt the CRM notification is sent at most once.
C35_CompletedOnlyIfNotifiedOnce ==
    \A row \in webhook_events :
        /\ row.status = "completed" => SumNotified(TasksOf(row)) >= 1
        /\ SumNotified(TasksOf(row)) <= 1
        /\ \A t \in TasksOf(row) :
              tasks[t].notified = 1 => "crm_notify" \in tasks[t].effects

\* Two requests raced for one pair, the task of the pair sent its message and
\* completed the receipt.
C35_Witness ==
    /\ \E row \in webhook_events :
          /\ row.status = "completed"
          /\ SumNotified(TasksOf(row)) = 1
    /\ \E r \in Requests : req[r].logged = Some(DuplicateKeyError)

(* ------------------------------- C36 ---------------------------------- *)
\* C36: in every reachable state a receipt has an error message only if its
\* status is failed, every failed receipt carries the error text with which
\* the workflow of a task of its pair failed, and a receipt in received,
\* processing or completed carries no error message.
C36_ErrorMessageIffFailed ==
    \A row \in webhook_events :
        /\ IsSome(row.error_message) => row.status = "failed"
        /\ row.status = "failed" =>
              /\ IsSome(row.error_message)
              /\ \E t \in TasksOf(row) :
                    /\ tasks[t].pc = "done"
                    /\ tasks[t].error = row.error_message
        /\ row.status \in {"received", "processing", "completed"}
              => row.error_message = None

\* One receipt failed and carries the error of its task, another one was
\* completed and carries none.
C36_Witness ==
    /\ \E row \in webhook_events :
          /\ row.status = "failed"
          /\ row.error_message = Some("External API error: No enrichment data available")
    /\ \E row \in webhook_events :
          /\ row.status = "completed"
          /\ row.error_message = None

(* ------------------------------- C37 ---------------------------------- *)
\* C37: whatever the interleaving of concurrent trigger_lead_processing
\* requests with the same lead id, at most one of them gets past the
\* lead-level deduplication (check, insert, wait, re-check) to fetch and
\* enrich the lead, and a request answered with duplicate_request = true has
\* called no external service.
C37_OneRequestProceeds ==
    /\ \A r1, r2 \in Triggers :
          (trig[r1].passed /\ trig[r2].passed /\ trig[r1].lead_id = trig[r2].lead_id)
             => r1 = r2
    /\ \A r \in Triggers :
          (IsSome(trig[r].response) /\ Unwrap(trig[r].response).ok
             /\ Unwrap(trig[r].response).val.duplicate_request)
             => trig[r].external_calls = 0

(* ------------------------------- C38 ---------------------------------- *)
\* the leads created in the CRM for a Google lead id
CrmLeadsFor(l) == {i \in 1..Len(crm_leads) : crm_leads[i].google_lead_id = l}

\* C38: for any sequence or interleaving of Google Ads deliveries with the
\* same lead_id and a valid key, at most one lead is created in the CRM for
\* that lead_id, and a delivery answered as a duplicate has created none.
C38_OneCrmLeadPerGoogleLead ==
    /\ \A l \in LeadIds : Cardinality(CrmLeadsFor(l)) <= 1
    /\ \A d \in Deliveries :
          (IsSome(gads[d].response) /\ Unwrap(gads[d].response).code = 200)
             => gads[d].c2s_lead_id = 0

(* ------------------------------- C39 ---------------------------------- *)
\* the handler writes its entry into work_api_cache
CacheWritten == fetch.pc = "insert" /\ fetch'.pc = "done"

\* C39: the cache of raw enrichment responses is written only with a
\* successful external response: when the external call fails or returns a
\* non-success status nothing is inserted or replaced for the key, and what
\* is inserted is the sealed copy of the response the API returned.
C39_OnlySuccessCached ==
    /\ [][CacheWritten =>
            /\ fetch.status = "success"
            /\ work_api_cache'[fetch.key] = Some(serialize(new(Unwrap(fetch.result))))
            /\ Unwrap(fetch.result) \in ResponseTexts]_vars
    /\ [][(fetch.pc = "call" /\ fetch'.status \in {"error", "non_success"})
            => (fetch'.pc = "done" /\ UNCHANGED work_api_cache)]_vars

====
